---- MODULE Spec2Model ----
(***************************************************************************)
(* Retrieval ranking engine of my-wasm-search: SearchService.search over   *)
(* the InMemoryDocumentStore, with the embedding provider and the          *)
(* wasm-similarity kernels as collaborators.                               *)
(*                                                                         *)
(* Texts are sequences of one-character strings, tokens are sequences of   *)
(* lower-case characters, scores are exact rationals <<num, den>> in       *)
(* lowest terms with den > 0.                                              *)
(***************************************************************************)
EXTENDS Integers, Sequences, FiniteSets, TLC

(***************************************************************************)
(* Bounds of the model.                                                    *)
(***************************************************************************)
MaxLoads == 2
MaxTopK == 2
MaxTokens == 1500
MaxPieces == 5
MaxListLoads == 3
MaxChanges == 3

(***************************************************************************)
(* Generic helpers.                                                        *)
(***************************************************************************)
Min(a, b) == IF a < b THEN a ELSE b

Max(a, b) == IF a > b THEN a ELSE b

Abs(a) == IF a < 0 THEN 0 - a ELSE a

Range(s) == {s[i] : i \in DOMAIN s}

RECURSIVE GCD(_, _)
GCD(a, b) == IF b = 0 THEN a ELSE GCD(b, a % b)

\* a rational in lowest terms, den > 0
Rat(n, d) ==
  LET g == GCD(Abs(n), d)
  IN  IF n = 0 THEN <<0, 1>> ELSE <<n \div g, d \div g>>

RatAdd(a, b) == Rat(a[1] * b[2] + b[1] * a[2], a[2] * b[2])

\* a - b as a sign: what a numeric comparator "a - b" is compared to 0
RatCmp(a, b) == a[1] * b[2] - b[1] * a[2]

RatGeq(a, b) == RatCmp(a, b) >= 0

RatGt(a, b) == RatCmp(a, b) > 0

Zero == Rat(0, 1)

(***************************************************************************)
(* Absent values (JavaScript undefined).                                   *)
(***************************************************************************)
Undefined == "undefined"

\* JavaScript truthiness of an optional string (SearchService.ts:95)
Truthy(s) == s # Undefined /\ s # ""

(***************************************************************************)
(* Characters.  The alphabet of the model: a few letters in both cases, a  *)
(* digit, the underscore, punctuation and white space.                     *)
(***************************************************************************)
LowerCase == {"a", "b", "c", "n", "o", "x", "y"}

UpperCase == {"A", "O", "X"}

Digits == {"0"}

WordChars == LowerCase \cup UpperCase \cup Digits \cup {"_"}

SpaceChars == {" ", "\t"}

\* String.prototype.toLowerCase on one character
ToLowerChar(c) ==
  CASE c = "A" -> "a"
    [] c = "O" -> "o"
    [] c = "X" -> "x"
    [] OTHER -> c

\* String.prototype.charCodeAt
CharCode(c) ==
  CASE c = "a" -> 97
    [] c = "b" -> 98
    [] c = "c" -> 99
    [] c = "n" -> 110
    [] c = "o" -> 111
    [] c = "x" -> 120
    [] c = "y" -> 121
    [] c = "0" -> 48
    [] c = "_" -> 95
    [] c = "A" -> 65
    [] c = "O" -> 79
    [] c = "X" -> 88
    [] c = " " -> 32
    [] c = "\t" -> 9
    [] c = "," -> 44
    [] c = "." -> 46
    [] OTHER -> 63

(***************************************************************************)
(* Tokenizer (SearchService.ts:25-56).                                     *)
(***************************************************************************)
\* .toLowerCase().replace(/[^\w\s]/g, ' ')
Normalize(text) ==
  [i \in DOMAIN text |->
     LET c == ToLowerChar(text[i])
     IN  IF c \in WordChars \/ c \in SpaceChars THEN c ELSE " "]

\* .split(/\s+/): the maximal runs between white space (empty pieces at the
\* ends included, as JavaScript produces them)
RECURSIVE SplitWs(_, _, _)
SplitWs(s, i, cur) ==
  IF i > Len(s) THEN <<cur>>
  ELSE IF s[i] \in SpaceChars
       THEN IF i > 1 /\ s[i - 1] \in SpaceChars
            THEN SplitWs(s, i + 1, cur)
            ELSE <<cur>> \o SplitWs(s, i + 1, <<>>)
       ELSE SplitWs(s, i + 1, Append(cur, s[i]))

\* tokenizeToStrings: .filter((t) => t.length > 1)
tokenizeToStrings(text) ==
  SelectSeq(SplitWs(Normalize(text), 1, <<>>), LAMBDA t : Len(t) > 1)

\* (hash * 31 + code) | 0 on a 32-bit signed hash, computed on 16-bit halves
HashStep(hash, code) ==
  LET lo == hash % 65536
      hi == (hash - lo) \div 65536
      nlo == 31 * lo + code
      nhi == (31 * hi + (nlo \div 65536)) % 65536
  IN  (IF nhi >= 32768 THEN nhi - 65536 ELSE nhi) * 65536 + (nlo % 65536)

RECURSIVE HashFrom(_, _, _)
HashFrom(token, i, hash) ==
  IF i > Len(token) THEN hash
  ELSE HashFrom(token, i + 1, HashStep(hash, CharCode(token[i])))

TokenHash(token) == HashFrom(token, 1, 0)

\* tokenize keeping the tokens of one character
tokenizeKeepingShort(text) ==
  {TokenHash(t) : t \in Range(SelectSeq(SplitWs(Normalize(text), 1, <<>>),
                                        LAMBDA t : Len(t) > 0))}

\* tokenize: the set of the hashes of the tokens (an Int32Array of unique
\* values; only its length and its members are used)
tokenize(text) == {TokenHash(t) : t \in Range(tokenizeToStrings(text))}

\* [...new Set(matches)]: first occurrences, in order
RECURSIVE Dedup(_)
Dedup(s) ==
  IF s = <<>> THEN <<>>
  ELSE LET front == Dedup(SubSeq(s, 1, Len(s) - 1))
       IN  IF s[Len(s)] \in Range(front) THEN front ELSE Append(front, s[Len(s)])

\* extractHighlights without the final Set
extractHighlightsRepeating(text, query) ==
  LET queryTokens == Range(tokenizeToStrings(query))
      textTokens == tokenizeToStrings(text)
  IN  SelectSeq(textTokens, LAMBDA t : t \in queryTokens)

extractHighlights(text, query) ==
  LET queryTokens == Range(tokenizeToStrings(query))
      textTokens == tokenizeToStrings(text)
      matches == SelectSeq(textTokens, LAMBDA t : t \in queryTokens)
  IN  Dedup(matches)

(***************************************************************************)
(* Similarity kernels of the wasm-similarity package (not part of this     *)
(* repository; modelled from section 4.1 of the specification).            *)
(***************************************************************************)
RECURSIVE DotFrom(_, _, _)
DotFrom(a, b, i) ==
  IF i > Len(a) \/ i > Len(b) THEN 0 ELSE a[i] * b[i] + DotFrom(a, b, i + 1)

Dot(a, b) == DotFrom(a, b, 1)

\* magnitude of a vector; the vectors of the model have integral magnitudes
Norm(v) == CHOOSE m \in 0..Dot(v, v) : m * m = Dot(v, v)

\* cosine of two equal-length vectors, 0 when either has zero magnitude
cosine_similarity(a, b) ==
  IF Norm(a) = 0 \/ Norm(b) = 0 THEN Zero ELSE Rat(Dot(a, b), Norm(a) * Norm(b))

\* the outcome of a kernel call: a thrown error, or the ranking
KernelFail == [error |-> "DimensionMismatch", pairs |-> <<>>]

KernelOk(pairs) == [error |-> "", pairs |-> pairs]

\* the i-th candidate (0-based) of the flat buffer, read at offset i * dim
Candidate(flat, dim, i) == SubSeq(flat, i * dim + 1, (i + 1) * dim)

\* the pairs sorted by score descending, ties by original index ascending
RECURSIVE RankDescending(_)
RankDescending(pairs) ==
  IF pairs = <<>> THEN <<>>
  ELSE LET front == RankDescending(SubSeq(pairs, 1, Len(pairs) - 1))
           x == pairs[Len(pairs)]
           k == Cardinality({i \in DOMAIN front : RatGeq(front[i].score, x.score)})
       IN  SubSeq(front, 1, k) \o <<x>> \o SubSeq(front, k + 1, Len(front))

\* batched "vectors vs. one query, ranked": a sequence of [score, idx]
\* (idx 0-based), or a failure when the query or the buffer does not have
\* the announced shape
cosine_similarity_dataspace(flat, n, dim, query) ==
  IF Len(query) # dim \/ n * dim > Len(flat) THEN KernelFail
  ELSE KernelOk(RankDescending(
         [i \in 1..n |->
            [score |-> cosine_similarity(Candidate(flat, dim, i - 1), query),
             idx |-> i - 1]]))

\* |A \cap B| / |A \cup B| over sets of token hashes, 0 if either is empty
jaccard_index(A, B) ==
  IF A = {} \/ B = {} THEN Zero
  ELSE Rat(Cardinality(A \cap B), Cardinality(A \cup B))

(***************************************************************************)
(* JavaScript built-ins used by the engine.                                *)
(***************************************************************************)
\* Array.prototype.slice(0, end): a negative end counts from the end
Slice(s, end) ==
  LET e == IF end < 0 THEN Max(Len(s) + end, 0) ELSE Min(end, Len(s))
  IN  SubSeq(s, 1, e)

\* SortByScoreDesc putting a candidate before those of equal score
RECURSIVE SortByScoreTiesReversed(_)
SortByScoreTiesReversed(s) ==
  IF s = <<>> THEN <<>>
  ELSE LET front == SortByScoreTiesReversed(SubSeq(s, 1, Len(s) - 1))
           x == s[Len(s)]
           k == Cardinality({i \in DOMAIN front : RatGt(front[i].score, x.score)})
       IN  SubSeq(front, 1, k) \o <<x>> \o SubSeq(front, k + 1, Len(front))

\* SortByScoreDesc with the sort left out
SortByScoreUnsorted(s) == s

\* Array.prototype.sort((a, b) => b.score - a.score): stable, descending
RECURSIVE SortByScoreDesc(_)
SortByScoreDesc(s) ==
  IF s = <<>> THEN <<>>
  ELSE LET front == SortByScoreDesc(SubSeq(s, 1, Len(s) - 1))
           x == s[Len(s)]
           k == Cardinality({i \in DOMAIN front : RatGeq(front[i].score, x.score)})
       IN  SubSeq(front, 1, k) \o <<x>> \o SubSeq(front, k + 1, Len(front))

\* Map.prototype.get on a Map kept as a sequence of [key, value] in
\* insertion order
MapHas(m, key) == \E i \in DOMAIN m : m[i].key = key

MapGet(m, key) == m[CHOOSE i \in DOMAIN m : m[i].key = key].value

MapKeys(m) == [i \in DOMAIN m |-> m[i].key]

(***************************************************************************)
(* Document Index Builder (SearchService.ts:102-133).                      *)
(***************************************************************************)
\* chunkIdToIndex.get(id): the last position (0-based) holding that id
ChunkIndexOf(textChunks, id) ==
  (CHOOSE i \in DOMAIN textChunks :
     /\ textChunks[i].id = id
     /\ \A j \in DOMAIN textChunks : textChunks[j].id = id => j <= i) - 1

\* chunkIdToIndex.get(id) !== undefined
HasChunk(textChunks, id) == \E i \in DOMAIN textChunks : textChunks[i].id = id

\* prevChunkId off by one: the chunk itself
prevChunkIdSelf(textChunks, chunkIndex) ==
  IF chunkIndex > 0 THEN textChunks[chunkIndex + 1].id ELSE Undefined

prevChunkId(textChunks, chunkIndex) ==
  IF chunkIndex > 0 THEN textChunks[chunkIndex].id ELSE Undefined

nextChunkId(textChunks, chunkIndex) ==
  IF chunkIndex < Len(textChunks) - 1 THEN textChunks[chunkIndex + 2].id ELSE Undefined

VectorMetadata(docId, docData, vectorRecord, chunkIndex) ==
  [docId |-> docId,
   docTitle |-> docData.title,
   chunkId |-> vectorRecord.id,
   chunkIndex |-> chunkIndex,
   totalChunks |-> Len(docData.textChunks),
   text |-> docData.textChunks[chunkIndex + 1].text,
   prevChunkId |-> prevChunkId(docData.textChunks, chunkIndex),
   nextChunkId |-> nextChunkId(docData.textChunks, chunkIndex)]

EmptyIndex == [metadata |-> <<>>, vectors |-> <<>>, dim |-> 0]

\* an unresolved vector record kept, filed under the document's first chunk
IndexRecordOrphanKept(index, docId, docData, vectorRecord) ==
  LET chunkIndex == IF HasChunk(docData.textChunks, vectorRecord.id)
                    THEN ChunkIndexOf(docData.textChunks, vectorRecord.id) ELSE 0
  IN  [metadata |-> Append(index.metadata,
                           VectorMetadata(docId, docData, vectorRecord, chunkIndex)),
       vectors |-> index.vectors \o vectorRecord.vector,
       dim |-> Len(vectorRecord.vector)]

\* one iteration of the inner loop (lines 111-132)
IndexRecord(index, docId, docData, vectorRecord) ==
  LET chunkIndex == ChunkIndexOf(docData.textChunks, vectorRecord.id)
  IN  IF ~HasChunk(docData.textChunks, vectorRecord.id) THEN index
      ELSE [metadata |-> Append(index.metadata,
                                VectorMetadata(docId, docData, vectorRecord, chunkIndex)),
            vectors |-> index.vectors \o vectorRecord.vector,
            dim |-> Len(vectorRecord.vector)]

RECURSIVE IndexDocument(_, _, _, _)
IndexDocument(index, docId, docData, r) ==
  IF r > Len(docData.vectorRecords) THEN index
  ELSE IndexDocument(IndexRecord(index, docId, docData, docData.vectorRecords[r]),
                     docId, docData, r + 1)

RECURSIVE BuildIndexFrom(_, _, _)
BuildIndexFrom(index, docsToSearch, d) ==
  IF d > Len(docsToSearch) THEN index
  ELSE BuildIndexFrom(IndexDocument(index, docsToSearch[d].id, docsToSearch[d].data, 1),
                      docsToSearch, d + 1)

BuildIndex(docsToSearch) == BuildIndexFrom(EmptyIndex, docsToSearch, 1)

(***************************************************************************)
(* Retrieval Engine: the three scoring strategies                          *)
(* (SearchService.ts:152-311).                                             *)
(***************************************************************************)
\* one SearchResult, assembled from its VectorMetadata
SearchResult(meta, similarity, semanticScore, keywordScore, rank, query) ==
  [id |-> meta.chunkId,
   text |-> meta.text,
   similarity |-> similarity,
   semanticScore |-> semanticScore,
   keywordScore |-> keywordScore,
   documentId |-> meta.docId,
   rank |-> rank,
   chunkIndex |-> meta.chunkIndex,
   totalChunks |-> meta.totalChunks,
   documentTitle |-> meta.docTitle,
   highlights |-> extractHighlights(meta.text, query),
   neighborChunks |-> [prev |-> meta.prevChunkId, next |-> meta.nextChunkId]]

\* an absent semanticScore / keywordScore
NoScore == <<0, 0>>

\* the outcome of a search: a thrown error, or the result sequence
Thrown(error) == [error |-> error, results |-> <<>>]

Returned(results) == [error |-> "", results |-> results]

\* SemanticLimit without the cutoff
SemanticLimitUncut(topK, rankings) == Len(rankings)

\* const limit = Math.min(topK, rankings.length / 2)
SemanticLimit(topK, rankings) == Min(topK, Len(rankings))

semanticSearch(query, queryVector, topK, metadata, vectors, dim) ==
  LET kernel == cosine_similarity_dataspace(vectors, Len(metadata), dim, queryVector)
      rankings == kernel.pairs
  IN  IF kernel.error # "" THEN Thrown(kernel.error)
      ELSE Returned([i \in 1..Max(SemanticLimit(topK, rankings), 0) |->
              SearchResult(metadata[rankings[i].idx + 1], rankings[i].score,
                           rankings[i].score, NoScore, i, query)])

\* KeywordScored keeping the entries that score 0
KeywordScoredZeroKept(queryTokens, metadata, i) ==
  [j \in DOMAIN metadata |->
     [idx |-> j - 1, score |-> jaccard_index(queryTokens, tokenize(metadata[j].text))]]

\* the loop of keywordSearch: the entries with a score > 0, in index order
RECURSIVE KeywordScored(_, _, _)
KeywordScored(queryTokens, metadata, i) ==
  IF i > Len(metadata) THEN <<>>
  ELSE LET chunkTokens == tokenize(metadata[i].text)
           score == jaccard_index(queryTokens, chunkTokens)
       IN  IF chunkTokens # {} /\ RatGt(score, Zero)
           THEN <<[idx |-> i - 1, score |-> score]>>
                  \o KeywordScored(queryTokens, metadata, i + 1)
           ELSE KeywordScored(queryTokens, metadata, i + 1)

keywordSearch(query, topK, metadata) ==
  LET queryTokens == tokenize(query)
      scored == SortByScoreDesc(KeywordScored(queryTokens, metadata, 1))
      top == Slice(scored, topK)
  IN  IF queryTokens = {} THEN Returned(<<>>)
      ELSE Returned([rank \in DOMAIN top |->
              SearchResult(metadata[top[rank].idx + 1], top[rank].score,
                           NoScore, top[rank].score, rank, query)])

\* HybridKeywordScored leaving out the entries that score 0, as keywordSearch does
HybridKeywordScoredPositive(queryTokens, metadata) ==
  IF queryTokens = {} THEN <<>> ELSE KeywordScored(queryTokens, metadata, 1)

\* the loop of hybridSearch: every entry, those without tokens scoring 0
HybridKeywordScored(queryTokens, metadata) ==
  [i \in DOMAIN metadata |->
     LET chunkTokens == tokenize(metadata[i].text)
     IN  IF chunkTokens = {} \/ queryTokens = {}
         THEN [idx |-> i - 1, score |-> Zero]
         ELSE [idx |-> i - 1, score |-> jaccard_index(queryTokens, chunkTokens)]]

\* semanticScores / keywordScores: idx -> score, in ranking order
ScoresOf(ranking) == [i \in DOMAIN ranking |-> [key |-> ranking[i].idx, value |-> ranking[i].score]]

\* semanticRanks / keywordRanks: idx -> 1-based position, in ranking order
RanksOf(ranking) == [i \in DOMAIN ranking |-> [key |-> ranking[i].idx, value |-> i]]

\* the fixed fusion constant (default of the parameter k)
RrfK == 60

\* RrfTerm without the constant k
RrfTermNoK(k, ranks, idx) == IF MapHas(ranks, idx) THEN Rat(1, MapGet(ranks, idx)) ELSE Zero

\* 1 / (k + rank), rank = Infinity when the index is absent from the ranking
RrfTerm(k, ranks, idx) == IF MapHas(ranks, idx) THEN Rat(1, k + MapGet(ranks, idx)) ELSE Zero

\* AllIndices enumerating the keyword ranking first
AllIndicesKeywordFirst(semanticRanks, keywordRanks) ==
  Dedup(MapKeys(keywordRanks) \o MapKeys(semanticRanks))

\* new Set([...semanticRanks.keys(), ...keywordRanks.keys()])
AllIndices(semanticRanks, keywordRanks) == Dedup(MapKeys(semanticRanks) \o MapKeys(keywordRanks))

reciprocalRankFusion(semanticRanks, keywordRanks, k) ==
  LET allIndices == AllIndices(semanticRanks, keywordRanks)
  IN  [i \in DOMAIN allIndices |->
         [key |-> allIndices[i],
          value |-> RatAdd(RrfTerm(k, semanticRanks, allIndices[i]),
                           RrfTerm(k, keywordRanks, allIndices[i]))]]

\* semanticScores.get(idx) ?? 0
ScoreOrZero(scores, idx) ==
  IF MapHas(scores, idx) THEN MapGet(scores, idx) ELSE Zero

\* the candidates of hybridSearch before the sort, in the order of rrfScores
HybridCandidates(rrfScores, semanticScores, keywordScores) ==
  [i \in DOMAIN rrfScores |->
     [idx |-> rrfScores[i].key,
      semanticScore |-> ScoreOrZero(semanticScores, rrfScores[i].key),
      keywordScore |-> ScoreOrZero(keywordScores, rrfScores[i].key),
      score |-> rrfScores[i].value]]

hybridSearch(query, queryVector, topK, metadata, vectors, dim) ==
  LET kernel == cosine_similarity_dataspace(vectors, Len(metadata), dim, queryVector)
      semanticRankings == kernel.pairs
      keywordScored == SortByScoreDesc(HybridKeywordScored(tokenize(query), metadata))
      rrfScores == reciprocalRankFusion(RanksOf(semanticRankings), RanksOf(keywordScored), RrfK)
      candidates == SortByScoreDesc(HybridCandidates(rrfScores, ScoresOf(semanticRankings),
                                                     ScoresOf(keywordScored)))
      top == Slice(candidates, topK)
  IN  IF kernel.error # "" THEN Thrown(kernel.error)
      ELSE Returned([rank \in DOMAIN top |->
              SearchResult(metadata[top[rank].idx + 1], top[rank].score,
                           top[rank].semanticScore, top[rank].keywordScore, rank, query)])

(***************************************************************************)
(* InMemoryDocumentStore: a Map kept as a sequence of [id, data] in        *)
(* insertion order (InMemoryDocumentStore.ts:7-23).                        *)
(***************************************************************************)
\* save moving a document that is loaded again to the end of the map
saveReinserting(store, id, data) ==
  Append(SelectSeq(store, LAMBDA e : e.id # id), [id |-> id, data |-> data])

\* documents.set(id, data): replaces in place, or appends a new key
save(store, id, data) ==
  IF \E i \in DOMAIN store : store[i].id = id
  THEN [i \in DOMAIN store |-> IF store[i].id = id THEN [id |-> id, data |-> data] ELSE store[i]]
  ELSE Append(store, [id |-> id, data |-> data])

\* documents.get(id): the document, as a sequence of length one, or the
\* empty sequence for undefined
find(store, id) ==
  IF \E i \in DOMAIN store : store[i].id = id
  THEN <<store[CHOOSE i \in DOMAIN store : store[i].id = id].data>>
  ELSE <<>>

\* Array.from(documents.entries())
getAll(store) == store

\* documents.has(id)
exists(store, id) == \E i \in DOMAIN store : store[i].id = id

\* DocsToSearch ignoring the documentId filter
DocsToSearchUnscoped(store, documentId) == getAll(store)

\* docsToSearch of SearchService.search (lines 94-100)
DocsToSearch(store, documentId) ==
  IF Truthy(documentId)
  THEN IF find(store, documentId) # <<>>
       THEN <<[id |-> documentId, data |-> find(store, documentId)[1]]>>
       ELSE <<>>
  ELSE getAll(store)

(***************************************************************************)
(* PgliteDocumentStore (PgliteDocumentStore.ts:155-305): the statements of *)
(* save and find on the three tables.  A table is the sequence of its rows *)
(* in the order they were inserted.                                        *)
(***************************************************************************)
\* data.title ?? null
TitleColumn(title) == IF title = Undefined THEN "null" ELSE title

\* title ?? undefined
TitleField(title) == IF title = "null" THEN Undefined ELSE title

\* DELETE FROM vector_records WHERE document_id = $1
DeleteVectors(t, id) ==
  [t EXCEPT !.vector_records = SelectSeq(@, LAMBDA row : row.document_id # id)]

\* DELETE FROM text_chunks WHERE document_id = $1
DeleteChunks(t, id) ==
  [t EXCEPT !.text_chunks = SelectSeq(@, LAMBDA row : row.document_id # id)]

\* the DELETE on documents finding no row
DeleteDocumentMissed(t, id) == t

\* DELETE FROM documents WHERE id = $1, with ON DELETE CASCADE on both
\* child tables
DeleteDocument(t, id) ==
  [documents |-> SelectSeq(t.documents, LAMBDA row : row.id # id),
   text_chunks |-> SelectSeq(t.text_chunks, LAMBDA row : row.document_id # id),
   vector_records |-> SelectSeq(t.vector_records, LAMBDA row : row.document_id # id)]

\* documents: id TEXT PRIMARY KEY
DocumentKeyTaken(t, id) == \E k \in DOMAIN t.documents : t.documents[k].id = id

\* text_chunks: PRIMARY KEY (document_id, chunk_id)
ChunkKeyTaken(t, id, chunkId) ==
  \E k \in DOMAIN t.text_chunks :
    t.text_chunks[k].document_id = id /\ t.text_chunks[k].chunk_id = chunkId

\* vector_records: PRIMARY KEY (document_id, chunk_id)
VectorKeyTaken(t, id, chunkId) ==
  \E k \in DOMAIN t.vector_records :
    t.vector_records[k].document_id = id /\ t.vector_records[k].chunk_id = chunkId

\* INSERT INTO documents (id, title)
InsertDocument(t, id, title) ==
  [t EXCEPT !.documents = Append(@, [id |-> id, title |-> TitleColumn(title)])]

\* InsertChunk leaving chunk_index to its DEFAULT 0
InsertChunkDefaultIndex(t, id, chunk, i) ==
  [t EXCEPT !.text_chunks =
     Append(@, [document_id |-> id, chunk_id |-> chunk.id, chunk_index |-> 0,
                text |-> chunk.text])]

\* INSERT INTO text_chunks (document_id, chunk_id, chunk_index, text)
InsertChunk(t, id, chunk, i) ==
  [t EXCEPT !.text_chunks =
     Append(@, [document_id |-> id, chunk_id |-> chunk.id, chunk_index |-> i,
                text |-> chunk.text])]

\* INSERT INTO vector_records (document_id, chunk_id, vector)
InsertVector(t, id, record) ==
  [t EXCEPT !.vector_records =
     Append(@, [document_id |-> id, chunk_id |-> record.id, vector |-> record.vector])]

\* ORDER BY chunk_index ASC (rows of equal chunk_index, which one save
\* never writes, in table order)
RECURSIVE OrderByChunkIndex(_)
OrderByChunkIndex(rows) ==
  IF rows = <<>> THEN <<>>
  ELSE LET k == CHOOSE k \in DOMAIN rows :
                  \A j \in DOMAIN rows :
                    \/ rows[k].chunk_index < rows[j].chunk_index
                    \/ rows[k].chunk_index = rows[j].chunk_index /\ k <= j
       IN  <<rows[k]>>
             \o OrderByChunkIndex([j \in 1..(Len(rows) - 1) |->
                                     IF j < k THEN rows[j] ELSE rows[j + 1]])

\* SELECT chunk_id, text FROM text_chunks WHERE document_id = $1 ORDER BY chunk_index ASC
SelectChunks(t, id) ==
  LET rows == OrderByChunkIndex(SelectSeq(t.text_chunks, LAMBDA row : row.document_id = id))
  IN  [k \in DOMAIN rows |-> [id |-> rows[k].chunk_id, text |-> rows[k].text]]

\* SELECT chunk_id, vector FROM vector_records WHERE document_id = $1: the
\* rows, in table order
SelectVectors(t, id) ==
  LET rows == SelectSeq(t.vector_records, LAMBDA row : row.document_id = id)
  IN  [k \in DOMAIN rows |-> [id |-> rows[k].chunk_id, vector |-> rows[k].vector]]

\* the orders a SELECT without ORDER BY may return n rows in
RowOrders(n) == {order \in [1..n -> 1..n] : \A a, b \in 1..n : order[a] = order[b] => a = b}

\* the statement save goes on with after the document row, and after the
\* chunk rows
AfterChunks(data) == IF Len(data.vectorRecords) > 0 THEN "insertVectors" ELSE "commit"

AfterDocument(data) == IF Len(data.textChunks) > 0 THEN "insertChunks" ELSE AfterChunks(data)

(***************************************************************************)
(* chunkText (src/util/pdf-to-json.ts:8-22).  A text is taken as its       *)
(* sequence of tokens, positions 0..T-1; a chunk is the slice of positions *)
(* [start, end) it decodes.                                                *)
(***************************************************************************)
CHUNK_SIZE == 500

CHUNK_OVERLAP == 50

\* the loop without its break: one more round after the text is used up
RECURSIVE ChunksFromNoBreak(_, _)
ChunksFromNoBreak(T, start) ==
  IF ~(start < T) THEN <<>>
  ELSE <<[start |-> start, end |-> Min(start + CHUNK_SIZE, T)]>>
         \o ChunksFromNoBreak(T, start + CHUNK_SIZE - CHUNK_OVERLAP)

\* the loop advancing by a whole chunk
RECURSIVE ChunksFromNoOverlap(_, _)
ChunksFromNoOverlap(T, start) ==
  IF ~(start < T) THEN <<>>
  ELSE LET end == Min(start + CHUNK_SIZE, T)
       IN  <<[start |-> start, end |-> end]>>
             \o (IF end >= T THEN <<>> ELSE ChunksFromNoOverlap(T, start + CHUNK_SIZE))

\* the while loop, from one value of start on
RECURSIVE ChunksFrom(_, _)
ChunksFrom(T, start) ==
  IF ~(start < T) THEN <<>>
  ELSE LET end == Min(start + CHUNK_SIZE, T)
       IN  <<[start |-> start, end |-> end]>>
             \o (IF end >= T THEN <<>>
                 ELSE ChunksFrom(T, start + CHUNK_SIZE - CHUNK_OVERLAP))

chunkText(T) == ChunksFrom(T, 0)

(***************************************************************************)
(* The run-api-server plugin (src/vite.config.ts:15-92).  The state s of   *)
(* the plugin is its closure variables serverProcess (0 for null, else the *)
(* number of the child process), isRestarting and pendingRestart, the API  *)
(* server processes it has spawned (procs, each "running", "terminating"   *)
(* once SIGTERM was sent, or "exited"), and the invocations of restart     *)
(* that are suspended at an await (restarts).  unbuilt (a change has come  *)
(* and no build has started since) and begun (the number of restart        *)
(* sequences begun) are history fields.  A promise that resolves at once   *)
(* is continued as a microtask, before any event is delivered: the         *)
(* operators run on to the first await of a child process.                 *)
(***************************************************************************)
\* the state when runApiServer() has returned the plugin object
PluginCreated ==
  [configured |-> FALSE, closed |-> FALSE,
   serverProcess |-> 0, isRestarting |-> FALSE, pendingRestart |-> FALSE,
   procs |-> <<>>, restarts |-> <<>>,
   changes |-> 0, unbuilt |-> FALSE, begun |-> 0]

\* stopServer, up to the wait for the exit of the process
stopServer(s) ==
  IF s.serverProcess = 0 THEN s
  ELSE [s EXCEPT !.serverProcess = 0, !.procs[s.serverProcess] = "terminating"]

startServer(s) ==
  [s EXCEPT !.procs = Append(@, "running"), !.serverProcess = Len(s.procs) + 1]

\* restart without the isRestarting guard
restartUnguarded(s) ==
  IF s.serverProcess = 0
  THEN [s EXCEPT !.isRestarting = TRUE, !.begun = @ + 1, !.unbuilt = FALSE,
                 !.restarts = Append(@, [pc |-> "awaitBuild", proc |-> 0])]
  ELSE [stopServer(s) EXCEPT
          !.isRestarting = TRUE, !.begun = @ + 1,
          !.restarts = Append(@, [pc |-> "awaitStop", proc |-> s.serverProcess])]

\* restart, up to its first await of a child process: the exit of the
\* server it stops, or the exit of the build when there is no server
restart(s) ==
  IF s.isRestarting THEN [s EXCEPT !.pendingRestart = TRUE]
  ELSE IF s.serverProcess = 0
  THEN [s EXCEPT !.isRestarting = TRUE, !.begun = @ + 1, !.unbuilt = FALSE,
                 !.restarts = Append(@, [pc |-> "awaitBuild", proc |-> 0])]
  ELSE [stopServer(s) EXCEPT
          !.isRestarting = TRUE, !.begun = @ + 1,
          !.restarts = Append(@, [pc |-> "awaitStop", proc |-> s.serverProcess])]

\* the sequence without its k-th element
RemoveAt(seq, k) == [j \in 1..(Len(seq) - 1) |-> IF j < k THEN seq[j] ELSE seq[j + 1]]

\* the finally block dropping a pending restart
restartFinallyForgetting(s, k) ==
  [s EXCEPT !.restarts = RemoveAt(@, k), !.isRestarting = FALSE, !.pendingRestart = FALSE]

\* the finally block of invocation k of restart (lines 64-70)
restartFinally(s, k) ==
  LET ended == [s EXCEPT !.restarts = RemoveAt(@, k), !.isRestarting = FALSE]
  IN  IF ended.pendingRestart THEN restart([ended EXCEPT !.pendingRestart = FALSE])
      ELSE ended

\* the exit of server process p as the plugin sees it: the handler set by
\* startServer clears serverProcess, then the stopServer that waits for p
\* resolves and its restart goes on to the build
serverExited(s, p) ==
  LET resumed == {k \in DOMAIN s.restarts :
                    s.restarts[k].pc = "awaitStop" /\ s.restarts[k].proc = p}
  IN  [s EXCEPT !.procs[p] = "exited",
                !.serverProcess = 0,
                !.restarts = [k \in DOMAIN s.restarts |->
                                IF k \in resumed THEN [pc |-> "awaitBuild", proc |-> 0]
                                ELSE s.restarts[k]],
                !.unbuilt = IF resumed # {} THEN FALSE ELSE @]

(***************************************************************************)
(* Inputs of the model.                                                    *)
(***************************************************************************)
TxtOxAn == <<"o", "x", " ", "a", "n">>

TxtOxUpper == <<"O", "x", ",", " ", "a">>

TxtC0 == <<"c", "0">>

TxtEmpty == <<>>

Chunk(id, text) == [id |-> id, text |-> text]

Vec(id, vector) == [id |-> id, vector |-> vector]

\* three chunks, one vector record each, two dimensions
DocA ==
  [title |-> "A",
   textChunks |-> <<Chunk("c1", TxtOxAn), Chunk("c2", TxtOxUpper), Chunk("c3", TxtC0)>>,
   vectorRecords |-> <<Vec("c1", <<1, 0>>), Vec("c2", <<3, 4>>), Vec("c3", <<0, 1>>)>>]

\* no title; a chunk without vector record, a vector record without chunk,
\* a zero vector, records not in chunk order
DocB ==
  [title |-> Undefined,
   textChunks |-> <<Chunk("c1", TxtOxUpper), Chunk("c2", TxtEmpty), Chunk("c3", TxtOxAn)>>,
   vectorRecords |-> <<Vec("c3", <<0, 1>>), Vec("c9", <<1, 0>>), Vec("c1", <<0, 0>>)>>]

\* one dimension
DocC ==
  [title |-> "C",
   textChunks |-> <<Chunk("c1", TxtOxAn), Chunk("c2", TxtC0)>>,
   vectorRecords |-> <<Vec("c1", <<1>>), Vec("c2", <<1>>)>>]

\* no vector record resolving to a chunk
DocD ==
  [title |-> "D",
   textChunks |-> <<Chunk("c1", TxtOxAn)>>,
   vectorRecords |-> <<Vec("c9", <<1, 0>>)>>]

DocPool == {DocA, DocB, DocC, DocD}

\* an empty title; two chunks with one id
DocDup ==
  [title |-> "",
   textChunks |-> <<Chunk("c1", TxtOxAn), Chunk("c1", TxtC0)>>,
   vectorRecords |-> <<Vec("c1", <<1, 0>>)>>]

\* an empty title; a chunk without vector record
DocE ==
  [title |-> "",
   textChunks |-> <<Chunk("c2", TxtC0), Chunk("c1", TxtOxAn)>>,
   vectorRecords |-> <<Vec("c1", <<1, 0>>)>>]

\* records not in chunk order; a chunk without token
DocT ==
  [title |-> "T",
   textChunks |-> <<Chunk("c1", TxtC0), Chunk("c2", TxtOxUpper), Chunk("c3", TxtEmpty)>>,
   vectorRecords |-> <<Vec("c2", <<3, 4>>), Vec("c1", <<1, 0>>), Vec("c3", <<0, 1>>)>>]

\* two vector records with one id
DocDupVec ==
  [title |-> "V",
   textChunks |-> <<Chunk("c1", TxtOxAn), Chunk("c2", TxtC0)>>,
   vectorRecords |-> <<Vec("c1", <<1, 0>>), Vec("c1", <<0, 1>>)>>]

StoreDocPool == {DocB, DocD, DocE, DocDup}

DocIds == {"d1", "d2"}

Queries == {<<"o", "x">>, <<"a", "n">>, <<" ">>, <<"a", " ", "x">>}

TopKs == (0 - 1)..MaxTopK

DocumentIds == {Undefined} \cup DocIds

Modes == {"semantic", "keyword", "hybrid"}

\* what the embedding provider may answer
QueryVectors == {<<1, 0>>, <<0, 1>>, <<1>>}

EmbeddingErrors == {"EmbeddingUnavailable", "OpenAI API key not configured"}

\* the search invocations in flight: one at a time, or two in parallel
Searchers == {"s1"}

ConcSearchers == {"s1", "s2"}

\* the inputs of the parallel searches
ConcDocPool == {DocA, DocB}

ConcQueries == {<<"o", "x">>}

ConcTopKs == {MaxTopK}

ConcDocumentIds == {"", "d1"}

ConcQueryVectors == {<<1, 0>>}

ConcEmbeddingErrors == {"EmbeddingUnavailable"}

(***************************************************************************)
(* State.                                                                  *)
(***************************************************************************)
\* call[p] holds the position (pc) and the locals of search invocation p,
\* and four history fields: storeAtRead (the store as the invocation read
\* it), embedCalls (how often it called the provider), embedError (what
\* the provider threw at it) and suspensions (how often it has given up
\* control at an await)
VARIABLES
  documents,  \* InMemoryDocumentStore.documents
  call,       \* per search invocation: its position and its locals
  loads,      \* number of loadDocument calls so far
  history,    \* what has been loaded: the ids in order of first load, the last load per id
  listing,    \* the last answer of getDocumentsToSearch / listDocuments
  pg,         \* the PGlite database: its three tables and the open transaction
  pgSave,     \* PgliteDocumentStore.save in progress: its position and its locals
  pgRead,     \* PgliteDocumentStore.find in progress: its position and its locals
  tok,        \* one search over an index of one chunk: its arguments and its outcome
  chunker,    \* one run of chunkText: its argument and its value
  plugin      \* the run-api-server plugin: its closure variables and its child processes

vars == <<documents, call, loads, history, listing, pg, pgSave, pgRead, tok, chunker, plugin>>

storeVars == <<documents, loads, history>>

pgVars == <<pg, pgSave, pgRead>>

pureVars == <<tok, chunker>>

Idle ==
  [pc |-> "idle", query |-> <<>>, topK |-> 0, documentId |-> Undefined, mode |-> "",
   docsToSearch |-> <<>>, index |-> EmptyIndex, queryVector |-> <<>>,
   outcome |-> Returned(<<>>), embedCalls |-> 0, embedError |-> "",
   storeAtRead |-> <<>>, suspensions |-> 0]

\* nothing loaded yet
NoHistory ==
  [first |-> <<>>, last |-> [id \in DocIds |-> <<>>], lastKeyed |-> [id \in DocIds |-> <<>>]]

\* a document whose chunk ids, and whose vector record ids, are pairwise
\* distinct: one that fits PRIMARY KEY (document_id, chunk_id)
Keyed(data) ==
  /\ \A i, j \in DOMAIN data.textChunks :
       data.textChunks[i].id = data.textChunks[j].id => i = j
  /\ \A i, j \in DOMAIN data.vectorRecords :
       data.vectorRecords[i].id = data.vectorRecords[j].id => i = j

\* the history after one more load: the ids in order of first load, the
\* last load of each id, and the last load of each id that was Keyed
Loaded(h, id, data) ==
  [first |-> IF id \in Range(h.first) THEN h.first ELSE Append(h.first, id),
   last |-> [h.last EXCEPT ![id] = <<data>>],
   lastKeyed |-> IF Keyed(data) THEN [h.lastKeyed EXCEPT ![id] = <<data>>] ELSE h.lastKeyed]

NoListing ==
  [pc |-> "idle", asked |-> "", documentId |-> Undefined, has |-> FALSE, docs |-> <<>>,
   list |-> <<>>, historyAtCall |-> NoHistory, loadsAtCall |-> 0, quiet |-> TRUE]

NoDocument == [title |-> Undefined, textChunks |-> <<>>, vectorRecords |-> <<>>]

\* the tables after initSchema on a fresh database
EmptyTables == [documents |-> <<>>, text_chunks |-> <<>>, vector_records |-> <<>>]

\* tables: the rows as they stand on the one connection; snapshot: the
\* rows at BEGIN while a transaction is open
EmptyDatabase == [tables |-> EmptyTables, inTx |-> FALSE, snapshot |-> EmptyTables]

\* tablesAtCall (the rows when save was called) is a history field
PgSaveIdle ==
  [pc |-> "idle", id |-> "", data |-> NoDocument, i |-> 0, error |-> "",
   tablesAtCall |-> EmptyTables]

\* clean (no save was in progress at any query of this find) and
\* historyAtReturn are history fields
PgReadIdle ==
  [pc |-> "idle", id |-> "", title |-> "", textChunks |-> <<>>, result |-> <<>>,
   clean |-> TRUE, loadsAtCall |-> 0, historyAtReturn |-> NoHistory]

TokIdle == [pc |-> "idle", text |-> <<>>, query |-> <<>>, mode |-> "", outcome |-> Returned(<<>>)]

ChunkerIdle == [pc |-> "idle", tokens |-> 0, chunks |-> <<>>]

InitSearch(procs) ==
  /\ documents = <<>>
  /\ call = [p \in procs |-> Idle]
  /\ loads = 0
  /\ history = NoHistory
  /\ listing = NoListing

InitPg ==
  /\ pg = EmptyDatabase
  /\ pgSave = PgSaveIdle
  /\ pgRead = PgReadIdle

InitWith(procs) ==
  /\ InitSearch(procs)
  /\ InitPg
  /\ tok = TokIdle
  /\ chunker = ChunkerIdle
  /\ plugin = PluginCreated

Init == InitWith(Searchers)

InitConc == InitWith(ConcSearchers)

(***************************************************************************)
(* DocumentApplicationService.loadDocument -> InMemoryDocumentStore.save   *)
(***************************************************************************)
LoadDocumentWithin(limit, id, data) ==
  /\ loads < limit
  /\ documents' = save(documents, id, data)
  /\ loads' = loads + 1
  /\ history' = Loaded(history, id, data)
  /\ UNCHANGED <<call, listing, pgVars, pureVars, plugin>>

LoadDocument(id, data) == LoadDocumentWithin(MaxLoads, id, data)

(***************************************************************************)
(* SearchService.search (lines 88-150), one action per run between two     *)
(* suspension points.                                                      *)
(***************************************************************************)
\* the call: runs up to the await of the store's answer (lines 94-100)
SearchCall(p, query, topK, documentId, mode) ==
  /\ call[p].pc = "idle"
  /\ call' = [call EXCEPT ![p] =
       [Idle EXCEPT !.pc = "awaitStore", !.query = query, !.topK = topK,
                    !.documentId = documentId, !.mode = mode,
                    !.docsToSearch = DocsToSearch(documents, documentId),
                    !.storeAtRead = documents, !.suspensions = 1]]
  /\ UNCHANGED <<storeVars, listing, pgVars, pureVars, plugin>>

\* AwaitedDocs reading the store again after the await
AwaitedDocsReread(c, store) == DocsToSearch(store, c.documentId)

\* the documents the index is built from: the value the await resumed with
AwaitedDocs(c, store) == c.docsToSearch

\* SearchBuildIndex calling the embedding provider before looking at the index
SearchBuildIndexEmbedFirst(p) ==
  LET c == call[p]
      index == BuildIndex(AwaitedDocs(c, documents))
  IN  /\ c.pc = "awaitStore"
      /\ call' = [call EXCEPT ![p] =
           IF c.mode = "keyword"
           THEN [c EXCEPT !.pc = "done", !.index = index,
                          !.outcome = IF Len(index.metadata) = 0 THEN Returned(<<>>)
                                      ELSE keywordSearch(c.query, c.topK, index.metadata)]
           ELSE [c EXCEPT !.pc = "awaitEmbed", !.index = index,
                          !.embedCalls = c.embedCalls + 1,
                          !.suspensions = c.suspensions + 1]]
      /\ UNCHANGED <<storeVars, listing, pgVars, pureVars, plugin>>

\* resumed with the documents: builds the index, answers at once when the
\* index is empty or the mode is keyword, else calls the embedding provider
\* (lines 102-143)
SearchBuildIndex(p) ==
  LET c == call[p]
      index == BuildIndex(AwaitedDocs(c, documents))
  IN  /\ c.pc = "awaitStore"
      /\ call' = [call EXCEPT ![p] =
           IF Len(index.metadata) = 0
           THEN [c EXCEPT !.pc = "done", !.index = index, !.outcome = Returned(<<>>)]
           ELSE IF c.mode = "keyword"
           THEN [c EXCEPT !.pc = "done", !.index = index,
                          !.outcome = keywordSearch(c.query, c.topK, index.metadata)]
           ELSE [c EXCEPT !.pc = "awaitEmbed", !.index = index,
                          !.embedCalls = c.embedCalls + 1,
                          !.suspensions = c.suspensions + 1]]
      /\ UNCHANGED <<storeVars, listing, pgVars, pureVars, plugin>>

\* the ranking after the embedding (lines 145-149)
Rank(c, queryVector) ==
  IF c.mode = "semantic"
  THEN semanticSearch(c.query, queryVector, c.topK, c.index.metadata,
                      c.index.vectors, c.index.dim)
  ELSE hybridSearch(c.query, queryVector, c.topK, c.index.metadata,
                    c.index.vectors, c.index.dim)

\* EmbedResolve dropping from the store the vector records that resolve to
\* no chunk
EmbedResolvePruning(p, queryVector) ==
  LET c == call[p]
      outcome == Rank(c, queryVector)
  IN  /\ c.pc = "awaitEmbed"
      /\ call' = [call EXCEPT ![p] =
           [c EXCEPT !.pc = IF outcome.error = "" THEN "done" ELSE "failed",
                     !.queryVector = queryVector, !.outcome = outcome]]
      /\ documents' = [d \in DOMAIN documents |->
           [documents[d] EXCEPT !.data.vectorRecords =
              SelectSeq(@, LAMBDA r : HasChunk(documents[d].data.textChunks, r.id))]]
      /\ UNCHANGED <<loads, history, listing, pgVars, pureVars, plugin>>

\* EmbedResolve awaiting the ranking as well
EmbedResolveAwaitingRank(p, queryVector) ==
  LET c == call[p]
      outcome == Rank(c, queryVector)
  IN  /\ c.pc = "awaitEmbed"
      /\ call' = [call EXCEPT ![p] =
           [c EXCEPT !.pc = IF outcome.error = "" THEN "done" ELSE "failed",
                     !.queryVector = queryVector, !.outcome = outcome,
                     !.suspensions = c.suspensions + 1]]
      /\ UNCHANGED <<storeVars, listing, pgVars, pureVars, plugin>>

\* the embedding provider answers: the search ranks and returns, or throws
\* what the kernel throws
EmbedResolve(p, queryVector) ==
  LET c == call[p]
      outcome == Rank(c, queryVector)
  IN  /\ c.pc = "awaitEmbed"
      /\ call' = [call EXCEPT ![p] =
           [c EXCEPT !.pc = IF outcome.error = "" THEN "done" ELSE "failed",
                     !.queryVector = queryVector, !.outcome = outcome]]
      /\ UNCHANGED <<storeVars, listing, pgVars, pureVars, plugin>>

\* EmbedReject degrading to the keyword ranking instead of failing
EmbedRejectDegraded(p, error) ==
  LET c == call[p]
  IN  /\ c.pc = "awaitEmbed"
      /\ call' = [call EXCEPT ![p] =
           [c EXCEPT !.pc = "done", !.embedError = error,
                     !.outcome = keywordSearch(c.query, c.topK, c.index.metadata)]]
      /\ UNCHANGED <<storeVars, listing, pgVars, pureVars, plugin>>

\* EmbedReject calling the provider a second time before giving up
EmbedRejectRetry(p, error) ==
  LET c == call[p]
  IN  /\ c.pc = "awaitEmbed"
      /\ call' = [call EXCEPT ![p] =
           IF c.embedCalls < 2
           THEN [c EXCEPT !.embedCalls = c.embedCalls + 1,
                          !.suspensions = c.suspensions + 1]
           ELSE [c EXCEPT !.pc = "failed", !.embedError = error,
                          !.outcome = Thrown(error)]]
      /\ UNCHANGED <<storeVars, listing, pgVars, pureVars, plugin>>

\* the embedding provider fails: the rejection leaves search as it is
EmbedReject(p, error) ==
  LET c == call[p]
  IN  /\ c.pc = "awaitEmbed"
      /\ call' = [call EXCEPT ![p] = [c EXCEPT !.pc = "failed", !.embedError = error, !.outcome = Thrown(error)]]
      /\ UNCHANGED <<storeVars, listing, pgVars, pureVars, plugin>>

\* the caller has taken the outcome; the locals of the invocation are gone
SearchSettle(p) ==
  /\ call[p].pc \in {"done", "failed"}
  /\ call' = [call EXCEPT ![p] = Idle]
  /\ UNCHANGED <<storeVars, listing, pgVars, pureVars, plugin>>

Next ==
  \/ \E id \in DocIds, data \in DocPool : LoadDocument(id, data)
  \/ \E p \in DOMAIN call, query \in Queries, topK \in TopKs,
        documentId \in DocumentIds, mode \in Modes :
       SearchCall(p, query, topK, documentId, mode)
  \/ \E p \in DOMAIN call : SearchBuildIndex(p)
  \/ \E p \in DOMAIN call, queryVector \in QueryVectors : EmbedResolve(p, queryVector)
  \/ \E p \in DOMAIN call, error \in EmbeddingErrors : EmbedReject(p, error)
  \/ \E p \in DOMAIN call : SearchSettle(p)

\* one search invocation at a time, every input
Spec == Init /\ [][Next]_vars

NextConc ==
  \/ \E id \in DocIds, data \in ConcDocPool : LoadDocument(id, data)
  \/ \E p \in DOMAIN call, query \in ConcQueries, topK \in ConcTopKs,
        documentId \in ConcDocumentIds, mode \in Modes :
       SearchCall(p, query, topK, documentId, mode)
  \/ \E p \in DOMAIN call : SearchBuildIndex(p)
  \/ \E p \in DOMAIN call, queryVector \in ConcQueryVectors : EmbedResolve(p, queryVector)
  \/ \E p \in DOMAIN call, error \in ConcEmbeddingErrors : EmbedReject(p, error)
  \/ \E p \in DOMAIN call : SearchSettle(p)

\* two search invocations in parallel with loads
SpecConc == InitConc /\ [][NextConc]_vars

(***************************************************************************)
(* The lexical and the fused ranking on their own: keyword and hybrid      *)
(* searches over documents of one vector length, with queries that tie     *)
(* chunks, match none, or have no token.                                   *)
(***************************************************************************)
NextRank ==
  \/ \E id \in DocIds, data \in {DocA, DocT} : LoadDocument(id, data)
  \/ \E p \in DOMAIN call, topK \in TopKs, documentId \in {Undefined, "d1"},
        mode \in {"keyword", "hybrid"},
        query \in {<<"o", "x">>, <<"a", "n">>, <<"x", "y">>, <<"a", " ", "x">>,
                   <<"o", "x", " ", "c", "0">>} :
       SearchCall(p, query, topK, documentId, mode)
  \/ \E p \in DOMAIN call : SearchBuildIndex(p)
  \/ \E p \in DOMAIN call, queryVector \in {<<1, 0>>, <<0, 1>>} : EmbedResolve(p, queryVector)
  \/ \E p \in DOMAIN call : EmbedReject(p, "EmbeddingUnavailable")
  \/ \E p \in DOMAIN call : SearchSettle(p)

SpecRank == Init /\ [][NextRank]_vars

(***************************************************************************)
(* DocumentApplicationService.getDocumentsToSearch and listDocuments       *)
(* (lines 17-33) over the in-memory store, one action per run between two  *)
(* suspension points, with loads in between.  historyAtCall, loadsAtCall   *)
(* and quiet (no load ran between the call and the return) are history     *)
(* fields.                                                                 *)
(***************************************************************************)
\* the call: runs up to the await of exists, or of getAll
GetDocumentsToSearchCall(documentId) ==
  /\ listing.pc = "idle"
  /\ listing' =
       IF Truthy(documentId)
       THEN [NoListing EXCEPT !.pc = "awaitExists", !.asked = "getDocumentsToSearch",
                              !.documentId = documentId,
                              !.has = exists(documents, documentId),
                              !.historyAtCall = history, !.loadsAtCall = loads]
       ELSE [NoListing EXCEPT !.pc = "awaitGetAll", !.asked = "getDocumentsToSearch",
                              !.documentId = documentId, !.docs = getAll(documents),
                              !.historyAtCall = history, !.loadsAtCall = loads]
  /\ UNCHANGED <<storeVars, call, pgVars, pureVars, plugin>>

\* resumed with the answer of exists: returns [] or asks find
GetDocumentsToSearchFind ==
  /\ listing.pc = "awaitExists"
  /\ listing' =
       IF ~listing.has
       THEN [listing EXCEPT !.pc = "returned", !.docs = <<>>,
                            !.quiet = (loads = listing.loadsAtCall)]
       ELSE [listing EXCEPT !.pc = "awaitFind",
                            !.docs = IF find(documents, listing.documentId) # <<>>
                                     THEN <<[id |-> listing.documentId,
                                             data |-> find(documents, listing.documentId)[1]]>>
                                     ELSE <<>>]
  /\ UNCHANGED <<storeVars, call, pgVars, pureVars, plugin>>

\* listDocuments: runs up to the await of getAll
ListDocumentsCall ==
  /\ listing.pc = "idle"
  /\ listing' = [NoListing EXCEPT !.pc = "awaitGetAll", !.asked = "listDocuments",
                                  !.docs = getAll(documents),
                                  !.historyAtCall = history, !.loadsAtCall = loads]
  /\ UNCHANGED <<storeVars, call, pgVars, pureVars, plugin>>

\* resumed with the answer of find or getAll: returns it, listDocuments
\* as [id, chunkCount]
ListingReturn ==
  /\ listing.pc \in {"awaitFind", "awaitGetAll"}
  /\ listing' = [listing EXCEPT
       !.pc = "returned",
       !.list = IF listing.asked = "listDocuments"
                THEN [i \in DOMAIN listing.docs |->
                        [id |-> listing.docs[i].id,
                         chunkCount |-> Len(listing.docs[i].data.textChunks)]]
                ELSE <<>>,
       !.quiet = (loads = listing.loadsAtCall)]
  /\ UNCHANGED <<storeVars, call, pgVars, pureVars, plugin>>

\* the caller has taken the answer
ListingSettle ==
  /\ listing.pc = "returned"
  /\ listing' = NoListing
  /\ UNCHANGED <<storeVars, call, pgVars, pureVars, plugin>>

NextList ==
  \/ \E id \in DocIds, data \in {DocA, DocD} : LoadDocumentWithin(MaxListLoads, id, data)
  \/ \E documentId \in {Undefined, ""} \cup DocIds : GetDocumentsToSearchCall(documentId)
  \/ GetDocumentsToSearchFind
  \/ ListDocumentsCall
  \/ ListingReturn
  \/ ListingSettle

SpecList == Init /\ [][NextList]_vars

(***************************************************************************)
(* The two stores side by side: every load goes to the in-memory store and *)
(* to the PGlite store.  PgliteDocumentStore.save (lines 216-250) and find *)
(* (lines 252-281) take one action per awaited statement; a find may run   *)
(* between the statements of a save.                                       *)
(***************************************************************************)
\* loadDocument(id, data) on both: the in-memory save is done at once, the
\* PGlite save runs up to its first await
StoreLoad(id, data) ==
  /\ loads < MaxLoads
  /\ pgSave.pc = "idle"
  /\ documents' = save(documents, id, data)
  /\ loads' = loads + 1
  /\ history' = Loaded(history, id, data)
  /\ pgSave' = [PgSaveIdle EXCEPT !.pc = "begin", !.id = id, !.data = data,
                                  !.tablesAtCall = pg.tables]
  /\ UNCHANGED <<call, listing, pg, pgRead, pureVars, plugin>>

\* BEGIN
PgSaveBegin ==
  /\ pgSave.pc = "begin"
  /\ pg' = [pg EXCEPT !.inTx = TRUE, !.snapshot = pg.tables]
  /\ pgSave' = [pgSave EXCEPT !.pc = "deleteVectors"]
  /\ UNCHANGED <<storeVars, call, listing, pgRead, pureVars, plugin>>

PgSaveDeleteVectors ==
  /\ pgSave.pc = "deleteVectors"
  /\ pg' = [pg EXCEPT !.tables = DeleteVectors(pg.tables, pgSave.id)]
  /\ pgSave' = [pgSave EXCEPT !.pc = "deleteChunks"]
  /\ UNCHANGED <<storeVars, call, listing, pgRead, pureVars, plugin>>

PgSaveDeleteChunks ==
  /\ pgSave.pc = "deleteChunks"
  /\ pg' = [pg EXCEPT !.tables = DeleteChunks(pg.tables, pgSave.id)]
  /\ pgSave' = [pgSave EXCEPT !.pc = "deleteDocument"]
  /\ UNCHANGED <<storeVars, call, listing, pgRead, pureVars, plugin>>

PgSaveDeleteDocument ==
  /\ pgSave.pc = "deleteDocument"
  /\ pg' = [pg EXCEPT !.tables = DeleteDocument(pg.tables, pgSave.id)]
  /\ pgSave' = [pgSave EXCEPT !.pc = "insertDocument"]
  /\ UNCHANGED <<storeVars, call, listing, pgRead, pureVars, plugin>>

\* the INSERT fails on a key that is taken: the catch block is entered
PgSaveInsertDocument ==
  /\ pgSave.pc = "insertDocument"
  /\ IF DocumentKeyTaken(pg.tables, pgSave.id)
     THEN /\ pgSave' = [pgSave EXCEPT !.pc = "rollback", !.error = "UniqueViolation"]
          /\ UNCHANGED pg
     ELSE /\ pg' = [pg EXCEPT !.tables = InsertDocument(pg.tables, pgSave.id, pgSave.data.title)]
          /\ pgSave' = [pgSave EXCEPT !.pc = AfterDocument(pgSave.data), !.i = 0]
  /\ UNCHANGED <<storeVars, call, listing, pgRead, pureVars, plugin>>

\* one round of the loop over data.textChunks
PgSaveInsertChunk ==
  LET chunk == pgSave.data.textChunks[pgSave.i + 1]
  IN  /\ pgSave.pc = "insertChunks"
      /\ IF ChunkKeyTaken(pg.tables, pgSave.id, chunk.id)
         THEN /\ pgSave' = [pgSave EXCEPT !.pc = "rollback", !.error = "UniqueViolation"]
              /\ UNCHANGED pg
         ELSE /\ pg' = [pg EXCEPT !.tables = InsertChunk(pg.tables, pgSave.id, chunk, pgSave.i)]
              /\ pgSave' = IF pgSave.i + 1 < Len(pgSave.data.textChunks)
                           THEN [pgSave EXCEPT !.i = pgSave.i + 1]
                           ELSE [pgSave EXCEPT !.pc = AfterChunks(pgSave.data), !.i = 0]
      /\ UNCHANGED <<storeVars, call, listing, pgRead, pureVars, plugin>>

\* one round of the loop over data.vectorRecords
PgSaveInsertVector ==
  LET record == pgSave.data.vectorRecords[pgSave.i + 1]
  IN  /\ pgSave.pc = "insertVectors"
      /\ IF VectorKeyTaken(pg.tables, pgSave.id, record.id)
         THEN /\ pgSave' = [pgSave EXCEPT !.pc = "rollback", !.error = "UniqueViolation"]
              /\ UNCHANGED pg
         ELSE /\ pg' = [pg EXCEPT !.tables = InsertVector(pg.tables, pgSave.id, record)]
              /\ pgSave' = IF pgSave.i + 1 < Len(pgSave.data.vectorRecords)
                           THEN [pgSave EXCEPT !.i = pgSave.i + 1]
                           ELSE [pgSave EXCEPT !.pc = "commit", !.i = 0]
      /\ UNCHANGED <<storeVars, call, listing, pgRead, pureVars, plugin>>

\* COMMIT: save returns
PgSaveCommit ==
  /\ pgSave.pc = "commit"
  /\ pg' = [pg EXCEPT !.inTx = FALSE, !.snapshot = EmptyTables]
  /\ pgSave' = PgSaveIdle
  /\ UNCHANGED <<storeVars, call, listing, pgRead, pureVars, plugin>>

\* the catch block rethrowing without ROLLBACK
PgSaveRethrowOnly ==
  /\ pgSave.pc = "rollback"
  /\ pgSave' = [PgSaveIdle EXCEPT !.error = pgSave.error,
                                  !.tablesAtCall = pgSave.tablesAtCall]
  /\ UNCHANGED <<storeVars, call, listing, pg, pgRead, pureVars, plugin>>

\* ROLLBACK in the catch block: save rethrows
PgSaveRollback ==
  /\ pgSave.pc = "rollback"
  /\ pg' = [pg EXCEPT !.tables = pg.snapshot, !.inTx = FALSE, !.snapshot = EmptyTables]
  /\ pgSave' = [PgSaveIdle EXCEPT !.error = pgSave.error,
                                  !.tablesAtCall = pgSave.tablesAtCall]
  /\ UNCHANGED <<storeVars, call, listing, pgRead, pureVars, plugin>>

\* no save is between its call and its return
PgQuiet == pgSave.pc = "idle" /\ ~pg.inTx

\* find(id): runs up to its first await
PgFindCall(id) ==
  /\ pgRead.pc = "idle"
  /\ pgRead' = [PgReadIdle EXCEPT !.pc = "selectDocument", !.id = id, !.loadsAtCall = loads]
  /\ UNCHANGED <<storeVars, call, listing, pg, pgSave, pureVars, plugin>>

\* SELECT id, title FROM documents WHERE id = $1; no row: undefined
PgFindDocument ==
  LET rows == SelectSeq(pg.tables.documents, LAMBDA row : row.id = pgRead.id)
      clean == pgRead.clean /\ PgQuiet /\ loads = pgRead.loadsAtCall
  IN  /\ pgRead.pc = "selectDocument"
      /\ pgRead' = IF Len(rows) = 0
                   THEN [pgRead EXCEPT !.pc = "returned", !.result = <<>>, !.clean = clean,
                                       !.historyAtReturn = history]
                   ELSE [pgRead EXCEPT !.pc = "selectChunks", !.title = rows[1].title,
                                       !.clean = clean]
      /\ UNCHANGED <<storeVars, call, listing, pg, pgSave, pureVars, plugin>>

PgFindChunks ==
  /\ pgRead.pc = "selectChunks"
  /\ pgRead' = [pgRead EXCEPT !.pc = "selectVectors",
                              !.textChunks = SelectChunks(pg.tables, pgRead.id),
                              !.clean = pgRead.clean /\ PgQuiet /\ loads = pgRead.loadsAtCall]
  /\ UNCHANGED <<storeVars, call, listing, pg, pgSave, pureVars, plugin>>

\* the vector rows come in an order the statement does not fix; find
\* returns the document
PgFindVectors(order) ==
  LET rows == SelectVectors(pg.tables, pgRead.id)
  IN  /\ pgRead.pc = "selectVectors"
      /\ order \in RowOrders(Len(rows))
      /\ pgRead' = [pgRead EXCEPT
           !.pc = "returned",
           !.result = <<[title |-> TitleField(pgRead.title),
                         textChunks |-> pgRead.textChunks,
                         vectorRecords |-> [k \in DOMAIN rows |-> rows[order[k]]]]>>,
           !.clean = pgRead.clean /\ PgQuiet /\ loads = pgRead.loadsAtCall,
           !.historyAtReturn = history]
      /\ UNCHANGED <<storeVars, call, listing, pg, pgSave, pureVars, plugin>>

\* the caller has taken the answer
PgFindSettle ==
  /\ pgRead.pc = "returned"
  /\ pgRead' = PgReadIdle
  /\ UNCHANGED <<storeVars, call, listing, pg, pgSave, pureVars, plugin>>

NextStore ==
  \/ \E id \in DocIds, data \in StoreDocPool : StoreLoad(id, data)
  \/ PgSaveBegin
  \/ PgSaveDeleteVectors
  \/ PgSaveDeleteChunks
  \/ PgSaveDeleteDocument
  \/ PgSaveInsertDocument
  \/ PgSaveInsertChunk
  \/ PgSaveInsertVector
  \/ PgSaveCommit
  \/ PgSaveRollback
  \/ \E id \in DocIds : PgFindCall(id)
  \/ PgFindDocument
  \/ PgFindChunks
  \/ \E order \in UNION {RowOrders(Len(data.vectorRecords)) : data \in StoreDocPool} :
       PgFindVectors(order)
  \/ PgFindSettle

SpecStore == Init /\ [][NextStore]_vars

(***************************************************************************)
(* PgliteDocumentStore.save on its own, one call after the other, with     *)
(* documents the store accepts and documents it refuses.                   *)
(***************************************************************************)
NextTx ==
  \/ \E id \in DocIds, data \in {DocB, DocE, DocDup, DocDupVec} : StoreLoad(id, data)
  \/ PgSaveBegin
  \/ PgSaveDeleteVectors
  \/ PgSaveDeleteChunks
  \/ PgSaveDeleteDocument
  \/ PgSaveInsertDocument
  \/ PgSaveInsertChunk
  \/ PgSaveInsertVector
  \/ PgSaveCommit
  \/ PgSaveRollback

SpecTx == Init /\ [][NextTx]_vars

(***************************************************************************)
(* chunkText as a run of its own: called on a text of any number of tokens *)
(* up to MaxTokens, it returns its chunks.                                 *)
(***************************************************************************)
InitChunk ==
  /\ InitSearch(Searchers)
  /\ InitPg
  /\ tok = TokIdle
  /\ chunker \in {[pc |-> "called", tokens |-> T, chunks |-> <<>>] : T \in 0..MaxTokens}
  /\ plugin = PluginCreated

ChunkText ==
  /\ chunker.pc = "called"
  /\ chunker' = [chunker EXCEPT !.pc = "returned", !.chunks = chunkText(chunker.tokens)]
  /\ UNCHANGED <<storeVars, call, listing, pgVars, tok, plugin>>

SpecChunk == InitChunk /\ [][ChunkText]_vars

(***************************************************************************)
(* The assembly of a result row over many chunk texts: a search in each    *)
(* mode over a store holding one document of one chunk, whose text is made *)
(* of up to MaxPieces pieces.                                              *)
(***************************************************************************)
\* two words, one of them capitalised, a one-character word, a separator
TokPieces == {<<"a", "b">>, <<"A", "a">>, <<"a">>, <<",", " ">>}

RECURSIVE TokTexts(_)
TokTexts(n) ==
  IF n = 0 THEN {<<>>}
  ELSE TokTexts(n - 1) \cup {t \o piece : t \in TokTexts(n - 1), piece \in TokPieces}

TokQueries ==
  {<<"a", "b">>, <<"A", "a", " ", "a", "b">>, <<"a", ",", "a">>, <<"a", "a", "b", " ", "a", "a">>}

\* the document holding the one chunk
TokDocument(text) ==
  [title |-> "T", textChunks |-> <<Chunk("c1", text)>>, vectorRecords |-> <<Vec("c1", <<1>>)>>]

InitHighlight ==
  /\ InitSearch(Searchers)
  /\ InitPg
  /\ chunker = ChunkerIdle
  /\ tok \in {[TokIdle EXCEPT !.pc = "called", !.text = text, !.query = query, !.mode = mode] :
               text \in TokTexts(MaxPieces), query \in TokQueries, mode \in Modes}
  /\ plugin = PluginCreated

\* search(query, 1, undefined, mode) over that store, the embedding
\* provider answering <<1>>
SearchOneChunk ==
  LET index == BuildIndex(DocsToSearch(<<[id |-> "d1", data |-> TokDocument(tok.text)]>>,
                                       Undefined))
  IN  /\ tok.pc = "called"
      /\ tok' = [tok EXCEPT !.pc = "returned",
                            !.outcome =
                              IF tok.mode = "keyword"
                              THEN keywordSearch(tok.query, 1, index.metadata)
                              ELSE IF tok.mode = "semantic"
                              THEN semanticSearch(tok.query, <<1>>, 1,
                                                  index.metadata, index.vectors, index.dim)
                              ELSE hybridSearch(tok.query, <<1>>, 1,
                                                index.metadata, index.vectors, index.dim)]
      /\ UNCHANGED <<storeVars, call, listing, pgVars, chunker, plugin>>

SpecHighlight == InitHighlight /\ [][SearchOneChunk]_vars

(***************************************************************************)
(* The run-api-server plugin: one action per event the plugin handles.     *)
(***************************************************************************)
\* configureServer: the first restart(), the watcher and the close handler
ConfigureServer ==
  /\ ~plugin.configured
  /\ plugin' = restart([plugin EXCEPT !.configured = TRUE])
  /\ UNCHANGED <<storeVars, call, listing, pgVars, pureVars>>

\* a change, add or unlink event of a file under the server directory; the
\* watcher is closed together with the HTTP server
FileChange ==
  /\ plugin.configured
  /\ ~plugin.closed
  /\ plugin.changes < MaxChanges
  /\ plugin' = restart([plugin EXCEPT !.changes = @ + 1, !.unbuilt = TRUE])
  /\ UNCHANGED <<storeVars, call, listing, pgVars, pureVars>>

\* the build awaited by invocation k of restart exits, with code 0 or not:
\* startServer or the catch block, then the finally block
BuildExit(k, ok) ==
  /\ k \in DOMAIN plugin.restarts
  /\ plugin.restarts[k].pc = "awaitBuild"
  /\ plugin' = restartFinally(IF ok THEN startServer(plugin) ELSE plugin, k)
  /\ UNCHANGED <<storeVars, call, listing, pgVars, pureVars>>

\* API server process p exits, on SIGTERM or by itself
ServerExit(p) ==
  /\ p \in DOMAIN plugin.procs
  /\ plugin.procs[p] # "exited"
  /\ plugin' = serverExited(plugin, p)
  /\ UNCHANGED <<storeVars, call, listing, pgVars, pureVars>>

\* the Vite HTTP server closes: stopServer(), not awaited
HttpClose ==
  /\ plugin.configured
  /\ ~plugin.closed
  /\ plugin' = stopServer([plugin EXCEPT !.closed = TRUE])
  /\ UNCHANGED <<storeVars, call, listing, pgVars, pureVars>>

NextDev ==
  \/ ConfigureServer
  \/ FileChange
  \/ \E k \in 1..(MaxChanges + 1), ok \in BOOLEAN : BuildExit(k, ok)
  \/ \E p \in 1..(MaxChanges + 1) : ServerExit(p)
  \/ HttpClose

SpecDev == Init /\ [][NextDev]_vars

\* builds finish, and a server process that was sent SIGTERM exits
SpecDevFair ==
  /\ SpecDev
  /\ WF_vars(\E k \in 1..(MaxChanges + 1), ok \in BOOLEAN : BuildExit(k, ok))
  /\ WF_vars(\E p \in 1..(MaxChanges + 1) :
               p \in DOMAIN plugin.procs /\ plugin.procs[p] = "terminating" /\ ServerExit(p))

(***************************************************************************)
(* What a search is expected to see, stated on the store as it was read    *)
(* and without the index builder.                                          *)
(***************************************************************************)
Finished(c) == c.pc \in {"done", "failed"}

\* positions in the store of the documents in scope of invocation c
Scope(c) ==
  {d \in DOMAIN c.storeAtRead : Truthy(c.documentId) => c.storeAtRead[d].id = c.documentId}

\* the (document, vector record) pairs in scope that resolve to a chunk
Entries(c) ==
  UNION {{<<d, r>> : r \in {r \in DOMAIN c.storeAtRead[d].data.vectorRecords :
                               \E k \in DOMAIN c.storeAtRead[d].data.textChunks :
                                 c.storeAtRead[d].data.textChunks[k].id
                                   = c.storeAtRead[d].data.vectorRecords[r].id}} :
         d \in Scope(c)}

\* the text of the chunk an entry resolves to (the last one with its id)
EntryText(c, e) ==
  LET data == c.storeAtRead[e[1]].data
      k == CHOOSE k \in DOMAIN data.textChunks :
             /\ data.textChunks[k].id = data.vectorRecords[e[2]].id
             /\ \A j \in DOMAIN data.textChunks :
                  data.textChunks[j].id = data.vectorRecords[e[2]].id => j <= k
  IN  data.textChunks[k].text

\* the matching candidates of a search: every entry, or in keyword mode the
\* entries with a Jaccard score > 0
Matching(c) ==
  IF c.mode = "keyword"
  THEN {e \in Entries(c) :
          RatGt(jaccard_index(tokenize(c.query), tokenize(EntryText(c, e))), Zero)}
  ELSE Entries(c)

(***************************************************************************)
(* C1: for every mode and every topK >= 0, a search that returns, returns  *)
(* at most topK results and exactly min(topK, M) results, M being the      *)
(* number of matching candidates in scope.                                 *)
(***************************************************************************)
C1_TopKCutoff ==
  \A p \in DOMAIN call :
    call[p].pc = "done" /\ call[p].topK >= 0
      => /\ Len(call[p].outcome.results) <= call[p].topK
         /\ Len(call[p].outcome.results)
              = Min(call[p].topK, Cardinality(Matching(call[p])))

\* a search cut off by topK: more candidates than asked for
C1_Witness ==
  \E p \in DOMAIN call :
    /\ call[p].pc = "done"
    /\ call[p].topK >= 1
    /\ Cardinality(Matching(call[p])) > call[p].topK
    /\ Len(call[p].outcome.results) = call[p].topK

(***************************************************************************)
(* C2: a search with a non-empty documentId D returns only results whose   *)
(* documentId is D.                                                        *)
(***************************************************************************)
C2_Scoping ==
  \A p \in DOMAIN call :
    call[p].pc = "done" /\ Truthy(call[p].documentId)
      => \A i \in DOMAIN call[p].outcome.results :
           call[p].outcome.results[i].documentId = call[p].documentId

\* a scoped search with results, while another document is loaded too
C2_Witness ==
  \E p \in DOMAIN call :
    /\ call[p].pc = "done"
    /\ Truthy(call[p].documentId)
    /\ call[p].outcome.results # <<>>
    /\ \E d \in DOMAIN call[p].storeAtRead :
         /\ call[p].storeAtRead[d].id # call[p].documentId
         /\ call[p].storeAtRead[d].data \in {DocA, DocB, DocC}

(***************************************************************************)
(* C3: when the scoped documents give no index entry, the search returns   *)
(* the empty sequence, without error, in every mode, and without asking    *)
(* the embedding provider (so whether or not the provider would fail).     *)
(***************************************************************************)
C3_EmptyIndex ==
  \A p \in DOMAIN call :
    Finished(call[p]) /\ Entries(call[p]) = {}
      => /\ call[p].pc = "done"
         /\ call[p].outcome = Returned(<<>>)
         /\ call[p].embedCalls = 0

\* a finished semantic or hybrid search over a loaded document that has no
\* vector record resolving to a chunk, or over an unknown documentId
C3_Witness ==
  \E p \in DOMAIN call :
    /\ Finished(call[p])
    /\ call[p].mode # "keyword"
    /\ Entries(call[p]) = {}
    /\ call[p].storeAtRead # <<>>

(***************************************************************************)
(* C4: for every mode and every store content, a search with topK <= 0     *)
(* returns the empty result sequence.                                      *)
(***************************************************************************)
C4_NonPositiveTopK ==
  \A p \in DOMAIN call :
    call[p].pc = "done" /\ call[p].topK <= 0 => call[p].outcome.results = <<>>

(***************************************************************************)
(* C5: the result sequence is sorted by similarity descending, in every    *)
(* mode.                                                                   *)
(***************************************************************************)
C5_SortedDescending ==
  \A p \in DOMAIN call :
    call[p].pc = "done"
      => \A i, j \in DOMAIN call[p].outcome.results :
           i < j => RatGeq(call[p].outcome.results[i].similarity,
                           call[p].outcome.results[j].similarity)

\* a keyword search returning two results of different similarity, the
\* better one sitting later in the index
C5_Witness ==
  \E p \in DOMAIN call :
    /\ call[p].pc = "done"
    /\ call[p].mode = "keyword"
    /\ Len(call[p].outcome.results) >= 2
    /\ RatGt(call[p].outcome.results[1].similarity, call[p].outcome.results[2].similarity)
    /\ call[p].outcome.results[1].chunkIndex > call[p].outcome.results[2].chunkIndex

(***************************************************************************)
(* C6: every hybrid result carries a semanticScore and a keywordScore, and *)
(* its similarity is 1/(60 + rs) + 1/(60 + rk), rs and rk being the        *)
(* 1-based positions of its chunk in the full semantic ranking and in the  *)
(* full keyword ranking of the scoped index.  The positions are counted    *)
(* here from the scores: the entries scoring better, and those scoring the *)
(* same that sit earlier in the index.                                     *)
(***************************************************************************)
C6_Cosine(c, i) == cosine_similarity(Candidate(c.index.vectors, c.index.dim, i - 1), c.queryVector)

C6_Jaccard(c, i) == jaccard_index(tokenize(c.query), tokenize(c.index.metadata[i].text))

C6_SemanticRank(c, i) ==
  1 + Cardinality({j \in DOMAIN c.index.metadata :
        \/ RatGt(C6_Cosine(c, j), C6_Cosine(c, i))
        \/ C6_Cosine(c, j) = C6_Cosine(c, i) /\ j < i})

C6_KeywordRank(c, i) ==
  1 + Cardinality({j \in DOMAIN c.index.metadata :
        \/ RatGt(C6_Jaccard(c, j), C6_Jaccard(c, i))
        \/ C6_Jaccard(c, j) = C6_Jaccard(c, i) /\ j < i})

C6_HybridFusion ==
  \A p \in DOMAIN call :
    call[p].pc = "done" /\ call[p].mode = "hybrid"
      => \A n \in DOMAIN call[p].outcome.results :
           LET r == call[p].outcome.results[n]
           IN  /\ r.semanticScore # NoScore
               /\ r.keywordScore # NoScore
               /\ \E i \in DOMAIN call[p].index.metadata :
                    /\ call[p].index.metadata[i].docId = r.documentId
                    /\ call[p].index.metadata[i].chunkId = r.id
                    /\ r.semanticScore = C6_Cosine(call[p], i)
                    /\ r.keywordScore = C6_Jaccard(call[p], i)
                    /\ r.similarity
                         = RatAdd(Rat(1, 60 + C6_SemanticRank(call[p], i)),
                                  Rat(1, 60 + C6_KeywordRank(call[p], i)))

\* a hybrid search returning a chunk ranked differently by the two
\* rankings, with a similarity that is neither of its component scores
C6_Witness ==
  \E p \in DOMAIN call :
    /\ call[p].pc = "done"
    /\ call[p].mode = "hybrid"
    /\ \E n \in DOMAIN call[p].outcome.results :
         LET r == call[p].outcome.results[n]
         IN  /\ RatGt(r.semanticScore, Zero)
             /\ RatGt(r.keywordScore, Zero)
             /\ r.similarity = RatAdd(Rat(1, 61), Rat(1, 62))
             /\ r.similarity # r.semanticScore
             /\ r.similarity # r.keywordScore

(***************************************************************************)
(* C7: when the embedding provider fails, the search fails with the        *)
(* provider's error, unchanged, and returns no result row.                 *)
(***************************************************************************)
C7_EmbeddingFailure ==
  \A p \in DOMAIN call :
    call[p].embedError # ""
      => /\ call[p].pc = "failed"
         /\ call[p].outcome.error = call[p].embedError
         /\ call[p].outcome.results = <<>>

\* a hybrid search over a non-empty index, with keyword matches at hand,
\* whose embedding call failed
C7_Witness ==
  \E p \in DOMAIN call :
    /\ call[p].embedError = "OpenAI API key not configured"
    /\ call[p].mode = "hybrid"
    /\ call[p].topK >= 1
    /\ keywordSearch(call[p].query, call[p].topK, call[p].index.metadata).results # <<>>

(***************************************************************************)
(* C8: every step of a search, in any mode and whether the search returns  *)
(* or fails, leaves the document store as it was.                          *)
(***************************************************************************)
C8_StoreUnchanged ==
  [][(\E p \in DOMAIN call : call'[p] # call[p]) => documents' = documents]_vars

\* a search has ranked a store holding a vector record without chunk
C8_Witness ==
  \E p \in DOMAIN call :
    /\ call[p].pc = "done"
    /\ call[p].queryVector # <<>>
    /\ \E d \in DOMAIN documents : documents[d].data = DocB

(***************************************************************************)
(* C9: under any interleaving of searches and loads, a search ends as it   *)
(* would if run alone, start to end, against the document collection as it *)
(* was when the search read it (and with the same answer of the embedding  *)
(* provider).                                                              *)
(***************************************************************************)
C9_Alone(store, query, topK, documentId, mode, queryVector, embedError) ==
  LET index == BuildIndex(DocsToSearch(store, documentId))
  IN  IF Len(index.metadata) = 0 THEN Returned(<<>>)
      ELSE IF mode = "keyword" THEN keywordSearch(query, topK, index.metadata)
      ELSE IF embedError # "" THEN Thrown(embedError)
      ELSE IF mode = "semantic"
      THEN semanticSearch(query, queryVector, topK, index.metadata, index.vectors, index.dim)
      ELSE hybridSearch(query, queryVector, topK, index.metadata, index.vectors, index.dim)

C9_Isolation ==
  \A p \in DOMAIN call :
    Finished(call[p])
      => call[p].outcome
           = C9_Alone(call[p].storeAtRead, call[p].query, call[p].topK, call[p].documentId,
                      call[p].mode, call[p].queryVector, call[p].embedError)

\* a search has returned results while another one was in flight, and a
\* load that changes what it would read completed after it read the store
C9_Witness ==
  \E p, q \in DOMAIN call :
    /\ p # q
    /\ call[p].pc = "done"
    /\ call[p].outcome.results # <<>>
    /\ call[q].pc \in {"awaitStore", "awaitEmbed"}
    /\ call[p].storeAtRead # documents
    /\ C9_Alone(documents, call[p].query, call[p].topK, call[p].documentId,
                call[p].mode, call[p].queryVector, call[p].embedError) # call[p].outcome

(***************************************************************************)
(* C10: a result whose chunk sits at position i of the n chunks of its     *)
(* document has chunkIndex i and totalChunks n; its prev is the id of the  *)
(* chunk at i - 1, absent when i = 0; its next is the id of the chunk at   *)
(* i + 1, absent when i = n - 1.                                           *)
(***************************************************************************)
C10_NeighborLinkage ==
  \A p \in DOMAIN call :
    call[p].pc = "done"
      => \A n \in DOMAIN call[p].outcome.results :
           LET r == call[p].outcome.results[n]
               chunks == find(call[p].storeAtRead, r.documentId)[1].textChunks
               i == r.chunkIndex
           IN  /\ i \in 0..(Len(chunks) - 1)
               /\ chunks[i + 1].id = r.id
               /\ chunks[i + 1].text = r.text
               /\ r.totalChunks = Len(chunks)
               /\ r.neighborChunks.prev = IF i = 0 THEN Undefined ELSE chunks[i].id
               /\ r.neighborChunks.next = IF i = Len(chunks) - 1 THEN Undefined
                                          ELSE chunks[i + 2].id

\* a search asked for two results returns a chunk with both neighbours and
\* a first chunk whose next chunk has no vector record
C10_Witness ==
  \E p \in DOMAIN call :
    /\ call[p].pc = "done"
    /\ call[p].topK = 2
    /\ \E n \in DOMAIN call[p].outcome.results :
         /\ call[p].outcome.results[n].neighborChunks.prev # Undefined
         /\ call[p].outcome.results[n].neighborChunks.next # Undefined
    /\ \E n \in DOMAIN call[p].outcome.results :
         LET r == call[p].outcome.results[n]
         IN  /\ r.chunkIndex = 0
             /\ r.neighborChunks.prev = Undefined
             /\ r.neighborChunks.next = "c2"
             /\ find(call[p].storeAtRead, r.documentId)[1] = DocB

(***************************************************************************)
(* C11: a vector record whose id matches no chunk of its own document is   *)
(* left out of the index.  Every result's id is the id of a chunk of the   *)
(* document named by its documentId; a search fails only through the       *)
(* embedding provider or through a resolving record whose length differs   *)
(* from the query vector's, never through an unresolved record; and when   *)
(* topK admits them all, every resolving record of the scope has its row.  *)
(***************************************************************************)
\* the vector records in scope that resolve to no chunk
Orphans(c) ==
  UNION {{<<d, r>> : r \in {r \in DOMAIN c.storeAtRead[d].data.vectorRecords :
                               \A k \in DOMAIN c.storeAtRead[d].data.textChunks :
                                 c.storeAtRead[d].data.textChunks[k].id
                                   # c.storeAtRead[d].data.vectorRecords[r].id}} :
         d \in Scope(c)}

EntryVector(c, e) == c.storeAtRead[e[1]].data.vectorRecords[e[2]].vector

EntryChunkId(c, e) == c.storeAtRead[e[1]].data.vectorRecords[e[2]].id

C11_OrphanExcluded ==
  \A p \in DOMAIN call :
    LET c == call[p]
    IN  Finished(c) =>
          /\ \A i \in DOMAIN c.outcome.results :
               \E d \in Scope(c) :
                 /\ c.storeAtRead[d].id = c.outcome.results[i].documentId
                 /\ \E k \in DOMAIN c.storeAtRead[d].data.textChunks :
                      c.storeAtRead[d].data.textChunks[k].id = c.outcome.results[i].id
          /\ c.pc = "failed" =>
               \/ c.embedError # ""
               \/ \E e \in Entries(c) : Len(EntryVector(c, e)) # Len(c.queryVector)
          /\ (c.pc = "done" /\ c.topK >= Cardinality(Matching(c))) =>
               \A e \in Matching(c) :
                 \E i \in DOMAIN c.outcome.results :
                   /\ c.outcome.results[i].documentId = c.storeAtRead[e[1]].id
                   /\ c.outcome.results[i].id = EntryChunkId(c, e)

\* a semantic search over a document with an unresolved record returned
\* the two resolving records of that document
C11_Witness ==
  \E p \in DOMAIN call :
    LET c == call[p]
    IN  /\ c.pc = "done"
        /\ c.mode = "semantic"
        /\ Orphans(c) # {}
        /\ Cardinality(Entries(c)) = 2
        /\ Len(c.outcome.results) = 2
        /\ {c.outcome.results[i].id : i \in DOMAIN c.outcome.results} = {"c1", "c3"}
        /\ \E e \in Orphans(c) : EntryChunkId(c, e) = "c9"

(***************************************************************************)
(* C12: when the vector records in scope of a semantic or hybrid search do *)
(* not all have the same length, the search ends as a DimensionMismatch    *)
(* failure and returns no ranking.                                         *)
(***************************************************************************)
MixedDimensions(c) ==
  \E e, f \in Entries(c) : Len(EntryVector(c, e)) # Len(EntryVector(c, f))

C12_MixedDimensionsFlagged ==
  \A p \in DOMAIN call :
    LET c == call[p]
    IN  (Finished(c) /\ c.mode \in {"semantic", "hybrid"} /\ c.embedError = ""
           /\ MixedDimensions(c)) =>
          /\ c.pc = "failed"
          /\ c.outcome.error = "DimensionMismatch"
          /\ c.outcome.results = <<>>

(***************************************************************************)
(* C13: every keyword-mode result has similarity = keywordScore > 0, and   *)
(* its chunk shares a token with the query; a query without a token of     *)
(* more than one character (empty, white space only, one-character words   *)
(* only) yields the empty result in keyword mode.                          *)
(***************************************************************************)
\* no maximal run of word characters in the query is longer than one
OnlyShortWords(query) ==
  \A i \in 1..(Len(query) - 1) :
    ~(ToLowerChar(query[i]) \in WordChars /\ ToLowerChar(query[i + 1]) \in WordChars)

C13_KeywordPositive ==
  \A p \in DOMAIN call :
    LET c == call[p]
    IN  (Finished(c) /\ c.mode = "keyword") =>
          /\ \A i \in DOMAIN c.outcome.results :
               /\ c.outcome.results[i].similarity = c.outcome.results[i].keywordScore
               /\ RatGt(c.outcome.results[i].similarity, Zero)
               /\ tokenize(c.query) \cap tokenize(c.outcome.results[i].text) # {}
          /\ OnlyShortWords(c.query) => c.outcome.results = <<>>

\* a keyword search with a query of one-character words, over a store with
\* a chunk holding a word of the query as a one-character word, came back empty
C13_Witness ==
  \E p \in DOMAIN call :
    LET c == call[p]
    IN  /\ c.pc = "done"
        /\ c.mode = "keyword"
        /\ c.query = <<"a", " ", "x">>
        /\ c.topK > 0
        /\ \E e \in Entries(c) : EntryText(c, e) = TxtOxUpper
        /\ c.outcome.results = <<>>

(***************************************************************************)
(* C19: during one search call the embedding provider is invoked at most   *)
(* once: never in keyword mode and never over an empty index, exactly once *)
(* by the time a semantic or hybrid search over a non-empty index ends,    *)
(* and a search whose embedding call failed ends failed after that one     *)
(* call.                                                                   *)
(***************************************************************************)
C19_EmbedAtMostOnce ==
  \A p \in DOMAIN call :
    LET c == call[p]
    IN  /\ c.embedCalls <= 1
        /\ c.mode = "keyword" => c.embedCalls = 0
        /\ (c.pc \in {"awaitEmbed", "done", "failed"} /\ Entries(c) = {}) => c.embedCalls = 0
        /\ (Finished(c) /\ c.mode \in {"semantic", "hybrid"} /\ Entries(c) # {}) =>
             c.embedCalls = 1
        /\ c.embedError # "" => (c.pc = "failed" /\ c.embedCalls = 1)

\* a hybrid search over a non-empty index ended on the provider's error
\* after one call
C19_Witness ==
  \E p \in DOMAIN call :
    LET c == call[p]
    IN  /\ c.pc = "failed"
        /\ c.mode = "hybrid"
        /\ Entries(c) # {}
        /\ c.embedError = "EmbeddingUnavailable"
        /\ c.embedCalls = 1

(***************************************************************************)
(* C20 as stated: a search invocation suspends at most once, only in       *)
(* semantic or hybrid mode and only to await the embedding provider.       *)
(***************************************************************************)
Suspended(c) == c.pc \in {"awaitStore", "awaitEmbed"}

C20_SingleSuspension ==
  \A p \in DOMAIN call :
    LET c == call[p]
    IN  /\ c.suspensions <= 1
        /\ Suspended(c) => (c.pc = "awaitEmbed" /\ c.mode \in {"semantic", "hybrid"})

(***************************************************************************)
(* C20 amended: a search invocation first suspends to await the document   *)
(* store's answer, in every mode, and a load can run at that point; after  *)
(* that it suspends at most once more, in semantic or hybrid mode over a   *)
(* non-empty index, to await the embedding provider.  Index building,      *)
(* similarity, fusion and assembly run between these points without        *)
(* suspension: two suspensions at most, one in keyword mode.               *)
(***************************************************************************)
C20_StoreThenEmbedding ==
  \A p \in DOMAIN call :
    LET c == call[p]
    IN  /\ c.suspensions <= 2
        /\ c.pc = "awaitStore" => c.suspensions = 1
        /\ c.pc = "awaitEmbed" =>
             (c.suspensions = 2 /\ c.mode \in {"semantic", "hybrid"} /\ Entries(c) # {})
        /\ Finished(c) =>
             c.suspensions = IF c.mode = "keyword" \/ Entries(c) = {} THEN 1 ELSE 2

\* a keyword search is suspended on the store's answer while a load has
\* already changed the store it read
C20_Witness ==
  \E p \in DOMAIN call :
    LET c == call[p]
    IN  /\ c.pc = "awaitStore"
        /\ c.mode = "keyword"
        /\ c.suspensions = 1
        /\ c.storeAtRead # <<>>
        /\ documents # c.storeAtRead

(***************************************************************************)
(* C17: for a text of T tokens chunkText returns no chunk when T = 0, one  *)
(* chunk when 0 < T <= CHUNK_SIZE, and                                     *)
(* ceil((T - CHUNK_OVERLAP) / (CHUNK_SIZE - CHUNK_OVERLAP)) chunks when    *)
(* T > CHUNK_SIZE; every chunk but the last spans CHUNK_SIZE tokens, the   *)
(* last between 1 and CHUNK_SIZE.                                          *)
(***************************************************************************)
CeilDiv(a, b) == (a + b - 1) \div b

Span(chunk) == chunk.end - chunk.start

C17_ChunkCount ==
  chunker.pc = "returned" =>
    LET T == chunker.tokens
        chunks == chunker.chunks
        n == Len(chunks)
    IN  /\ n = IF T = 0 THEN 0
               ELSE IF T <= CHUNK_SIZE THEN 1
               ELSE CeilDiv(T - CHUNK_OVERLAP, CHUNK_SIZE - CHUNK_OVERLAP)
        /\ \A i \in 1..(n - 1) : Span(chunks[i]) = CHUNK_SIZE
        /\ n > 0 => (Span(chunks[n]) >= 1 /\ Span(chunks[n]) <= CHUNK_SIZE)

\* a text of more than two chunks' worth came back as three chunks, the
\* last one shorter than the others
C17_Witness ==
  /\ chunker.pc = "returned"
  /\ chunker.tokens > 2 * CHUNK_SIZE
  /\ Len(chunker.chunks) = 3
  /\ Span(chunker.chunks[3]) < CHUNK_SIZE

(***************************************************************************)
(* C18: the chunks cover the token sequence: the first starts at token 0,  *)
(* the last ends with the last token, each starts                          *)
(* CHUNK_SIZE - CHUNK_OVERLAP tokens after the one before it, so that       *)
(* neighbours share exactly CHUNK_OVERLAP tokens, and every token lies in  *)
(* some chunk.                                                             *)
(***************************************************************************)
Positions(chunk) == chunk.start..(chunk.end - 1)

C18_Coverage ==
  (chunker.pc = "returned" /\ chunker.tokens > 0) =>
    LET T == chunker.tokens
        chunks == chunker.chunks
        n == Len(chunks)
    IN  /\ n > 0
        /\ chunks[1].start = 0
        /\ chunks[n].end = T
        /\ \A i \in 1..(n - 1) :
             /\ chunks[i + 1].start = chunks[i].start + (CHUNK_SIZE - CHUNK_OVERLAP)
             /\ Cardinality(Positions(chunks[i]) \cap Positions(chunks[i + 1]))
                  = CHUNK_OVERLAP
        /\ \A t \in 0..(T - 1) : \E i \in 1..n : t \in Positions(chunks[i])

\* a text one token longer than a chunk and its overlap: two chunks, the
\* second of them CHUNK_OVERLAP + 1 tokens long
C18_Witness ==
  /\ chunker.pc = "returned"
  /\ chunker.tokens = CHUNK_SIZE + 1
  /\ Len(chunker.chunks) = 2
  /\ chunker.chunks[2] = [start |-> CHUNK_SIZE - CHUNK_OVERLAP, end |-> CHUNK_SIZE + 1]

(***************************************************************************)
(* C14: the highlights of every result, in every mode, are the normalized  *)
(* tokens of the chunk text (maximal runs of word characters of the        *)
(* lowercased text, longer than one character) that are also normalized    *)
(* tokens of the query, in order of first occurrence in the chunk text and *)
(* without duplicates.                                                     *)
(***************************************************************************)
Lowered(text) == [i \in DOMAIN text |-> ToLowerChar(text[i])]

\* the maximal runs of word characters longer than one, as <<first, last>>
WordRuns(text) ==
  {run \in (DOMAIN text) \X (DOMAIN text) :
     /\ run[1] < run[2]
     /\ \A k \in run[1]..run[2] : Lowered(text)[k] \in WordChars
     /\ run[1] = 1 \/ Lowered(text)[run[1] - 1] \notin WordChars
     /\ run[2] = Len(text) \/ Lowered(text)[run[2] + 1] \notin WordChars}

WordsOf(text) == {SubSeq(Lowered(text), run[1], run[2]) : run \in WordRuns(text)}

\* where a word of the text occurs first
FirstAt(text, word) ==
  CHOOSE i \in DOMAIN text :
    /\ \E run \in WordRuns(text) : run[1] = i /\ SubSeq(Lowered(text), run[1], run[2]) = word
    /\ \A run \in WordRuns(text) :
         SubSeq(Lowered(text), run[1], run[2]) = word => i <= run[1]

C14_Highlights ==
  tok.pc = "returned" =>
    \A r \in DOMAIN tok.outcome.results :
      LET row == tok.outcome.results[r]
          h == row.highlights
      IN  /\ row.text = tok.text
          /\ Range(h) = WordsOf(row.text) \cap WordsOf(tok.query)
          /\ \A a, b \in DOMAIN h :
               a < b => (h[a] # h[b] /\ FirstAt(row.text, h[a]) < FirstAt(row.text, h[b]))

\* a hybrid row whose text holds a word of the query twice and, between
\* the two, another word of the query in capitals: two highlights, in the
\* order of the text and not of the query
C14_Witness ==
  /\ tok.pc = "returned"
  /\ tok.mode = "hybrid"
  /\ tok.text = <<"a", "b", ",", " ", "A", "a", ",", " ", "a", "b">>
  /\ tok.query = <<"A", "a", " ", "a", "b">>
  /\ Len(tok.outcome.results) = 1
  /\ tok.outcome.results[1].highlights = <<<<"a", "b">>, <<"a", "a">>>>

(***************************************************************************)
(* C16: after any sequence of loadDocument calls on the in-memory store,   *)
(* getDocumentsToSearch(id) returns the one pair [id, document] when id    *)
(* has been loaded and the empty list otherwise; getDocumentsToSearch()    *)
(* without an id, like listDocuments, returns every loaded document once,  *)
(* in order of first load, and the empty list when nothing is loaded.      *)
(* Stated for calls during which no load ran.                              *)
(***************************************************************************)
\* every loaded document once, in order of first load, as of history h
LoadedInOrder(h) ==
  [i \in DOMAIN h.first |-> [id |-> h.first[i], data |-> h.last[h.first[i]][1]]]

C16_DocumentsToSearch ==
  (listing.pc = "returned" /\ listing.quiet) =>
    LET h == listing.historyAtCall
    IN  /\ (listing.asked = "getDocumentsToSearch" /\ Truthy(listing.documentId)) =>
             listing.docs = IF listing.documentId \in Range(h.first)
                            THEN <<[id |-> listing.documentId,
                                    data |-> h.last[listing.documentId][1]]>>
                            ELSE <<>>
        /\ (listing.asked = "getDocumentsToSearch" /\ ~Truthy(listing.documentId)) =>
             listing.docs = LoadedInOrder(h)
        /\ listing.asked = "listDocuments" =>
             listing.list = [i \in DOMAIN h.first |->
                               [id |-> h.first[i],
                                chunkCount |-> Len(h.last[h.first[i]][1].textChunks)]]
        /\ h.first = <<>> => (listing.docs = <<>> /\ listing.list = <<>>)

\* d2 loaded, then d1, then d2 again with another document: the list
\* still names d2 first, with the document of its last load
C16_Witness ==
  /\ listing.pc = "returned"
  /\ listing.quiet
  /\ listing.asked = "getDocumentsToSearch"
  /\ listing.documentId = Undefined
  /\ listing.loadsAtCall = 3
  /\ listing.docs = <<[id |-> "d2", data |-> DocD], [id |-> "d1", data |-> DocA]>>

(***************************************************************************)
(* C15: loading is a full overwrite keyed by document id.  After any       *)
(* sequence of loads, find(id) on the in-memory store returns the document *)
(* of the last load of id, and find(id) on the PGlite store, run while no  *)
(* save is in progress, returns the title, the chunks in their order and   *)
(* the vector records of the last load of id that the store accepted (one  *)
(* whose chunk ids and vector record ids are distinct), and nothing of an  *)
(* earlier load; undefined when there was none.                            *)
(***************************************************************************)
C15_FullOverwrite ==
  /\ \A id \in DocIds : find(documents, id) = history.last[id]
  /\ (pgRead.pc = "returned" /\ pgRead.clean) =>
       LET expected == pgRead.historyAtReturn.lastKeyed[pgRead.id]
       IN  IF expected = <<>> THEN pgRead.result = <<>>
           ELSE /\ Len(pgRead.result) = 1
                /\ pgRead.result[1].title = expected[1].title
                /\ pgRead.result[1].textChunks = expected[1].textChunks
                /\ Len(pgRead.result[1].vectorRecords) = Len(expected[1].vectorRecords)
                /\ Range(pgRead.result[1].vectorRecords) = Range(expected[1].vectorRecords)

\* d1 was loaded twice, the second time with fewer chunks and another
\* vector record id; both stores answer find(d1) with the second document
C15_Witness ==
  /\ loads = 2
  /\ history.first = <<"d1">>
  /\ find(documents, "d1") = <<DocD>>
  /\ pgRead.pc = "returned"
  /\ pgRead.clean
  /\ pgRead.id = "d1"
  /\ pgRead.result = <<DocD>>

(***************************************************************************)
(* C21: in hybrid mode the keyword ranking holds every index entry, those  *)
(* scoring 0 included, each at a 1-based position: every result carries a  *)
(* keywordScore and a similarity 1/(60 + rs) + 1/(60 + rk) with both       *)
(* positions among 1..N, and a hybrid search over N index entries returns  *)
(* min(topK, N) results, also when no chunk shares a token with the query. *)
(***************************************************************************)
C21_HybridFullRanking ==
  \A p \in DOMAIN call :
    LET c == call[p]
        N == Cardinality(Entries(c))
    IN  (c.pc = "done" /\ c.mode = "hybrid" /\ c.topK >= 0) =>
          /\ Len(c.outcome.results) = Min(c.topK, N)
          /\ \A i \in DOMAIN c.outcome.results :
               /\ c.outcome.results[i].keywordScore # NoScore
               /\ \E rs, rk \in 1..N :
                    c.outcome.results[i].similarity
                      = RatAdd(Rat(1, 60 + rs), Rat(1, 60 + rk))

\* a hybrid search whose query has a token that no chunk holds, over
\* three index entries, one of them a chunk without token: two results, as
\* asked for, each with keyword score 0
C21_Witness ==
  \E p \in DOMAIN call :
    LET c == call[p]
    IN  /\ c.pc = "done"
        /\ c.mode = "hybrid"
        /\ c.query = <<"x", "y">>
        /\ Cardinality(Entries(c)) = 3
        /\ \E e \in Entries(c) : EntryText(c, e) = TxtEmpty
        /\ c.topK = 2
        /\ Len(c.outcome.results) = 2
        /\ \A i \in DOMAIN c.outcome.results : c.outcome.results[i].keywordScore = Zero

(***************************************************************************)
(* C22: in keyword mode two candidates of equal Jaccard score come out in  *)
(* index-insertion order: by position of their document in the scoped set, *)
(* then by position of their vector record in the document.  Stated on the *)
(* candidates, so also when topK cuts between the two: the later one is in *)
(* the output only behind the earlier one.                                 *)
(***************************************************************************)
EntryScore(c, e) == jaccard_index(tokenize(c.query), tokenize(EntryText(c, e)))

\* the row of the output is the one of entry e
RowOf(c, row, e) ==
  row.documentId = c.storeAtRead[e[1]].id /\ row.id = EntryChunkId(c, e)

InsertedBefore(e, f) == e[1] < f[1] \/ (e[1] = f[1] /\ e[2] < f[2])

C22_StableTies ==
  \A p \in DOMAIN call :
    LET c == call[p]
    IN  (c.pc = "done" /\ c.mode = "keyword") =>
          \A e, f \in Matching(c) :
            (InsertedBefore(e, f) /\ EntryScore(c, e) = EntryScore(c, f)) =>
              \A j \in DOMAIN c.outcome.results :
                RowOf(c, c.outcome.results[j], f) =>
                  \E i \in 1..(j - 1) : RowOf(c, c.outcome.results[i], e)

\* two chunks of one document tie on the query "ox c0"; they come out in
\* the order of their vector records, which is not that of the chunks
C22_Witness ==
  \E p \in DOMAIN call :
    LET c == call[p]
    IN  /\ c.pc = "done"
        /\ c.mode = "keyword"
        /\ Len(c.outcome.results) = 2
        /\ c.outcome.results[1].similarity = c.outcome.results[2].similarity
        /\ c.outcome.results[1].documentId = c.outcome.results[2].documentId
        /\ c.outcome.results[1].id = "c2"
        /\ c.outcome.results[2].id = "c1"
        /\ c.outcome.results[1].chunkIndex > c.outcome.results[2].chunkIndex

(***************************************************************************)
(* C24: in hybrid mode two results with the same fused score come out in   *)
(* order of their semantic rank, the semantically better one first.        *)
(***************************************************************************)
\* the position in the index of the chunk a row is about
IndexPosition(c, row) ==
  CHOOSE i \in DOMAIN c.index.metadata :
    c.index.metadata[i].docId = row.documentId /\ c.index.metadata[i].chunkId = row.id

C24_FusedTies ==
  \A p \in DOMAIN call :
    LET c == call[p]
    IN  (c.pc = "done" /\ c.mode = "hybrid") =>
          \A i, j \in DOMAIN c.outcome.results :
            (i < j /\ c.outcome.results[i].similarity = c.outcome.results[j].similarity) =>
              C6_SemanticRank(c, IndexPosition(c, c.outcome.results[i]))
                < C6_SemanticRank(c, IndexPosition(c, c.outcome.results[j]))

\* two results of fused score 1/61 + 1/62: the first is the better one
\* semantically, the second the better one lexically and the earlier one
\* in the index
C24_Witness ==
  \E p \in DOMAIN call :
    LET c == call[p]
    IN  /\ c.pc = "done"
        /\ c.mode = "hybrid"
        /\ Len(c.outcome.results) = 2
        /\ c.outcome.results[1].similarity = RatAdd(Rat(1, 61), Rat(1, 62))
        /\ c.outcome.results[2].similarity = RatAdd(Rat(1, 61), Rat(1, 62))
        /\ RatGt(c.outcome.results[1].semanticScore, c.outcome.results[2].semanticScore)
        /\ RatGt(c.outcome.results[2].keywordScore, c.outcome.results[1].keywordScore)
        /\ IndexPosition(c, c.outcome.results[2]) < IndexPosition(c, c.outcome.results[1])

(***************************************************************************)
(* C25 as stated: every keyword-mode result has a non-empty highlights     *)
(* list, the hashed match of the scoring and the string match of the       *)
(* highlights always agreeing.                                             *)
(***************************************************************************)
C25_HighlightsNonEmpty ==
  \A p \in DOMAIN call :
    (call[p].pc = "done" /\ call[p].mode = "keyword") =>
      \A i \in DOMAIN call[p].outcome.results :
        call[p].outcome.results[i].highlights # <<>>

(***************************************************************************)
(* C25 amended: a chunk is returned in keyword mode only if one of its     *)
(* normalized tokens has the 32-bit hash of a normalized token of the      *)
(* query.  Its highlights list is empty exactly when no token of the chunk *)
(* is, as a string, a token of the query, which happens when the match     *)
(* rests on two different tokens of equal hash; a chunk that shares a      *)
(* token string with the query is always a candidate.                      *)
(***************************************************************************)
TokenStrings(text) == Range(tokenizeToStrings(text))

C25_HashedMatch ==
  \A p \in DOMAIN call :
    LET c == call[p]
    IN  (c.pc = "done" /\ c.mode = "keyword") =>
          /\ \A i \in DOMAIN c.outcome.results :
               LET row == c.outcome.results[i]
               IN  /\ \E s \in TokenStrings(row.text), t \in TokenStrings(c.query) :
                        TokenHash(s) = TokenHash(t)
                   /\ row.highlights = <<>>
                        <=> TokenStrings(row.text) \cap TokenStrings(c.query) = {}
          /\ c.topK >= Cardinality(Matching(c)) =>
               \A e \in Entries(c) :
                 TokenStrings(EntryText(c, e)) \cap TokenStrings(c.query) # {} =>
                   \E i \in DOMAIN c.outcome.results : RowOf(c, c.outcome.results[i], e)

\* the query "an" brought back the chunk "c0" with score 1 and without
\* highlight: the two tokens have the same hash
C25_Witness ==
  \E p \in DOMAIN call :
    LET c == call[p]
    IN  /\ c.pc = "done"
        /\ c.mode = "keyword"
        /\ c.query = <<"a", "n">>
        /\ TokenHash(<<"a", "n">>) = TokenHash(<<"c", "0">>)
        /\ \E i \in DOMAIN c.outcome.results :
             /\ c.outcome.results[i].text = TxtC0
             /\ c.outcome.results[i].similarity = Rat(1, 1)
             /\ c.outcome.results[i].highlights = <<>>

(***************************************************************************)
(* C23: for the PGlite store, find(id) after save(id, d) returns the text  *)
(* chunks of d in the order they have in d, with their ids and texts, the  *)
(* title of d and the set of vector records of d; the chunk_index stored   *)
(* with each chunk is its position in d.textChunks.  d is a document the   *)
(* store accepts; the find runs while no save is in progress.              *)
(***************************************************************************)
StoredChunks(id) == SelectSeq(pg.tables.text_chunks, LAMBDA row : row.document_id = id)

C23_ChunkOrder ==
  /\ PgQuiet =>
       \A id \in DocIds :
         history.lastKeyed[id] # <<>> =>
           LET d == history.lastKeyed[id][1]
               rows == StoredChunks(id)
           IN  /\ Len(rows) = Len(d.textChunks)
               /\ \A k \in DOMAIN d.textChunks :
                    \E r \in DOMAIN rows :
                      /\ rows[r].chunk_id = d.textChunks[k].id
                      /\ rows[r].text = d.textChunks[k].text
                      /\ rows[r].chunk_index = k - 1
  /\ (pgRead.pc = "returned" /\ pgRead.clean
        /\ pgRead.historyAtReturn.lastKeyed[pgRead.id] # <<>>) =>
       LET d == pgRead.historyAtReturn.lastKeyed[pgRead.id][1]
           found == pgRead.result[1]
       IN  /\ Len(pgRead.result) = 1
           /\ found.title = d.title
           /\ Len(found.textChunks) = Len(d.textChunks)
           /\ \A k \in DOMAIN d.textChunks :
                /\ found.textChunks[k].id = d.textChunks[k].id
                /\ found.textChunks[k].text = d.textChunks[k].text
           /\ \A record \in Range(d.vectorRecords) :
                \E k \in DOMAIN found.vectorRecords : found.vectorRecords[k] = record
           /\ \A k \in DOMAIN found.vectorRecords :
                found.vectorRecords[k] \in Range(d.vectorRecords)

\* d2 holds a document of three chunks; d1 was saved with chunks c2, c1 in
\* that order: find(d1) returns c2 before c1, stored at chunk_index 0 and 1
\* behind the rows of d2
C23_Witness ==
  /\ PgQuiet
  /\ pgRead.pc = "returned"
  /\ pgRead.clean
  /\ pgRead.id = "d1"
  /\ pgRead.result = <<DocE>>
  /\ Len(pg.tables.text_chunks) = 5
  /\ pg.tables.text_chunks[4] = [document_id |-> "d1", chunk_id |-> "c2", chunk_index |-> 0,
                                 text |-> TxtC0]
  /\ pg.tables.text_chunks[5] = [document_id |-> "d1", chunk_id |-> "c1", chunk_index |-> 1,
                                 text |-> TxtOxAn]

(***************************************************************************)
(* C26: when a statement of PgliteDocumentStore.save(id, d) fails (d holds *)
(* two chunks, or two vector records, with one id), save rolls back and    *)
(* rethrows: once it has returned, the three tables hold the rows they     *)
(* held when it was called, the previous document under id among them, and *)
(* no transaction is left open.  Stated for one save at a time.            *)
(***************************************************************************)
\* save has returned by throwing
PgSaveThrown == pgSave.pc = "idle" /\ pgSave.error # ""

C26_RollbackRestores ==
  /\ pgSave.pc = "rollback" => pgSave.error # ""
  /\ PgSaveThrown =>
       /\ pgSave.error = "UniqueViolation"
       /\ ~pg.inTx
       /\ pg.tables = pgSave.tablesAtCall
       /\ \A id \in DocIds :
            history.lastKeyed[id] # <<>> =>
              /\ DocumentKeyTaken(pg.tables, id)
              /\ SelectChunks(pg.tables, id) = history.lastKeyed[id][1].textChunks
              /\ Range(SelectVectors(pg.tables, id))
                   = Range(history.lastKeyed[id][1].vectorRecords)

\* d1 holds a document of three chunks; a save of d1 with two vector
\* records of one id has thrown after its chunk rows were written: the
\* three chunks and three vector records of before are back
C26_Witness ==
  /\ PgSaveThrown
  /\ pgSave.tablesAtCall # EmptyTables
  /\ history.last["d1"] = <<DocDupVec>>
  /\ history.lastKeyed["d1"] = <<DocB>>
  /\ SelectChunks(pg.tables, "d1") = DocB.textChunks
  /\ SelectVectors(pg.tables, "d1") = DocB.vectorRecords

(***************************************************************************)
(* C27: a find(id) whose queries interleave with the statements of a       *)
(* save(id, d2) over a store holding d1 under id returns d1 in full or d2  *)
(* in full: not undefined, not a part of the chunks or vector records, not *)
(* the chunks of one with the vector records of the other.  Stated for a   *)
(* find that returns while the save is still in progress.                  *)
(***************************************************************************)
\* the document under id in tables t, as find reads it from tables at rest
ReadDocument(t, id) ==
  LET rows == SelectSeq(t.documents, LAMBDA row : row.id = id)
  IN  IF Len(rows) = 0 THEN <<>>
      ELSE <<[title |-> TitleField(rows[1].title),
              textChunks |-> SelectChunks(t, id),
              vectorRecords |-> SelectVectors(t, id)]>>

\* the answer of a find is document d in full
SameDocument(found, d) ==
  /\ Len(found) = 1
  /\ found[1].title = d.title
  /\ found[1].textChunks = d.textChunks
  /\ Len(found[1].vectorRecords) = Len(d.vectorRecords)
  /\ Range(found[1].vectorRecords) = Range(d.vectorRecords)

C27_WholeDocument ==
  (/\ pgRead.pc = "returned"
   /\ pgSave.pc # "idle"
   /\ pgSave.id = pgRead.id
   /\ Keyed(pgSave.data)
   /\ ReadDocument(pgSave.tablesAtCall, pgRead.id) # <<>>) =>
    \/ SameDocument(pgRead.result, ReadDocument(pgSave.tablesAtCall, pgRead.id)[1])
    \/ SameDocument(pgRead.result, pgSave.data)

(***************************************************************************)
(* C28: in the run-api-server plugin, under any interleaving of file       *)
(* changes, build exits and process exits, at most one restart sequence is *)
(* in progress (and isRestarting says whether one is) and at most one API  *)
(* server process is alive: while a restart waits for its build no server  *)
(* process is alive, so a new one is spawned only after the one before it  *)
(* has exited; serverProcess names a running process or none.              *)
(***************************************************************************)
Alive(s) == {p \in DOMAIN s.procs : s.procs[p] # "exited"}

C28_OneServer ==
  /\ Len(plugin.restarts) <= 1
  /\ plugin.isRestarting <=> Len(plugin.restarts) = 1
  /\ Cardinality(Alive(plugin)) <= 1
  /\ \A k \in DOMAIN plugin.restarts :
       /\ plugin.restarts[k].pc = "awaitBuild" => Alive(plugin) = {}
       /\ plugin.restarts[k].pc = "awaitStop" => Alive(plugin) = {plugin.restarts[k].proc}
  /\ plugin.serverProcess # 0 => plugin.procs[plugin.serverProcess] = "running"

\* changes came during each restart; the first server has exited and the
\* third restart waits for the second server to exit, with a further
\* restart pending
C28_Witness ==
  /\ plugin.changes = 3
  /\ plugin.begun = 3
  /\ plugin.procs = <<"exited", "terminating">>
  /\ plugin.restarts = <<[pc |-> "awaitStop", proc |-> 2]>>
  /\ plugin.pendingRestart

(***************************************************************************)
(* C29: no file change is lost.  Builds finishing and a server exiting on  *)
(* SIGTERM, every change is followed by the start of a build; a change     *)
(* that comes during a restart starts none but leaves one restart pending, *)
(* and a pending restart is taken up by exactly one restart when the       *)
(* current one ends, whether its build failed or not; isRestarting is      *)
(* false again once the changes have stopped.                              *)
(***************************************************************************)
ChangesCoalesce ==
  /\ plugin'.begun \in {plugin.begun, plugin.begun + 1}
  /\ (plugin.isRestarting /\ plugin'.changes = plugin.changes + 1) =>
       (plugin'.pendingRestart /\ plugin'.begun = plugin.begun)
  /\ (plugin.pendingRestart /\ ~plugin'.pendingRestart) =>
       (plugin'.begun = plugin.begun + 1 /\ plugin'.isRestarting)
  /\ (plugin.isRestarting /\ ~plugin.pendingRestart /\ plugin'.changes = plugin.changes) =>
       plugin'.begun = plugin.begun

C29_NoChangeLost ==
  /\ plugin.unbuilt ~> ~plugin.unbuilt
  /\ plugin.isRestarting ~> ~plugin.isRestarting
  /\ [][ChangesCoalesce]_vars

\* all changes came during the first restart, whose build failed; one
\* further restart has begun and is building, none is pending
C29_Witness ==
  /\ plugin.changes = MaxChanges
  /\ plugin.begun = 2
  /\ plugin.procs = <<>>
  /\ plugin.restarts = <<[pc |-> "awaitBuild", proc |-> 0]>>
  /\ ~plugin.pendingRestart
  /\ ~plugin.unbuilt

(***************************************************************************)
(* C30: once the Vite HTTP server has closed, the plugin spawns no API     *)
(* server process any more.                                                *)
(***************************************************************************)
C30_NoSpawnAfterClose ==
  [][plugin.closed => Len(plugin'.procs) = Len(plugin.procs)]_vars
====
